---- MODULE Spec2Model ----
(***************************************************************************)
(* OAuth2 authorization-code + PKCE login of the UCD toolkit frontend:     *)
(* the one-time transaction store (oauth-state-storage.js), the token      *)
(* exchange client, session creation and the two request handlers of       *)
(* /login and /auth/callback, over a shared Redis key-value store.         *)
(*                                                                         *)
(* Every awaited Redis command is one step: a handler suspends at each     *)
(* store call and other requests may run in between.                       *)
(***************************************************************************)
EXTENDS Integers, FiniteSets, Sequences, TLC

(***************************************************************************)
(* Bounds of the model                                                     *)
(***************************************************************************)
MaxLogins == 1          \* GET /login requests in flight at once
MaxCallbacks == 2       \* GET /auth/callback requests in flight at once
MaxCallers == 2         \* direct callers of the transaction-store functions
MaxStates == 1          \* state parameters generated in a run
MaxSessions == 2        \* session ids generated in a run
MaxTime == 600          \* the clock stops ticking at or after this second
TickSeconds == 300      \* seconds the clock advances per tick
MaxSessionTime == 14400      \* the SessionStore clock stops here
SessionTickSeconds == 7200   \* seconds the SessionStore clock advances per tick
MaxPages == 1                \* requests for a protected page in progress at once

(***************************************************************************)
(* Program constants                                                       *)
(***************************************************************************)
STATE_TTL_SECONDS == 300
SessionCacheTtlMs == 14400000     \* config session.cache.ttl, fourHoursMs

STATE_KEY_PREFIX == "auth:state:"
PKCE_KEY_PREFIX == "auth:pkce:"

AZURE_AD_UNAVAILABLE == "Authentication service is temporarily unavailable. Please try again later."
AUTHENTICATION_FAILED == "Authentication failed. Please try again."
INVALID_AUTHENTICATION_RESPONSE == "Invalid authentication response. Please try again."
AUTHENTICATION_REQUEST_EXPIRED == "Authentication request expired. Please try again."
HOME_REDIRECT_PATH == "/"

(***************************************************************************)
(* JavaScript values                                                       *)
(***************************************************************************)
Undefined == "<undefined>"      \* a query parameter or cookie that is not there
Null == "<null>"                \* Redis GET of an absent key

\* JS truthiness of a string-or-missing value: if (x) / !x
Truthy(x) == x # Undefined /\ x # Null /\ x # ""

(***************************************************************************)
(* Values in play                                                          *)
(***************************************************************************)
StateNames == <<"state-1", "state-2", "state-3">>
VerifierNames == <<"verifier-1", "verifier-2", "verifier-3">>
SessionIdNames == <<"sid-1", "sid-2", "sid-3", "sid-4">>

\* generateStateParameter / generatePkceChallenge / randomUUID: a fresh,
\* unguessable value per call; n values were drawn before
generateStateParameter(n) == StateNames[n + 1]
generatePkceVerifier(n) == VerifierNames[n + 1]
randomUUID(n) == SessionIdNames[n + 1]

GenStates == {StateNames[i] : i \in 1..MaxStates}
Verifiers == {VerifierNames[i] : i \in 1..MaxStates}
SessionIds == {SessionIdNames[i] : i \in 1..MaxSessions}
ForgedState == "never-stored-state"
MalformedState == "bad state:*"
AuthCode == "auth-code"

\* the characters of a state value.  A generated state is
\* crypto.randomBytes(32).toString('base64url'): 43 characters of the
\* base64url alphabet
Base64UrlAlphabet ==
  <<"A", "B", "C", "D", "E", "F", "G", "H", "I", "J", "K", "L", "M", "N", "O", "P",
    "Q", "R", "S", "T", "U", "V", "W", "X", "Y", "Z", "a", "b", "c", "d", "e", "f",
    "g", "h", "i", "j", "k", "l", "m", "n", "o", "p", "q", "r", "s", "t", "u", "v",
    "w", "x", "y", "z", "0", "1", "2", "3", "4", "5", "6", "7", "8", "9", "-", "_">>
Base64UrlLength == 43
StateText(s) ==
  CASE s \in GenStates ->
         LET n == CHOOSE i \in 1..MaxStates : StateNames[i] = s
         IN  [i \in 1..Base64UrlLength |-> Base64UrlAlphabet[((17 * n + 29 * i) % 64) + 1]]
    [] s = ForgedState ->
         <<"n", "e", "v", "e", "r", "-", "s", "t", "o", "r", "e", "d", "-",
           "s", "t", "a", "t", "e">>
    [] s = MalformedState -> <<"b", "a", "d", " ", "s", "t", "a", "t", "e", ":", "*">>
    [] OTHER -> <<>>

\* validateState(state): throws unless the state is a non-empty string of at
\* most MAX_STATE_LENGTH characters matching /^[a-zA-Z0-9_-]+$/
MAX_STATE_LENGTH == 512
VALID_STATE_PATTERN == {Base64UrlAlphabet[i] : i \in 1..64}
validateState(state) ==
  IF state \in {Null, Undefined, ""} THEN "State parameter is required"
  ELSE IF Len(StateText(state)) > MAX_STATE_LENGTH
    THEN "State parameter exceeds maximum length"
  ELSE IF \E i \in 1..Len(StateText(state)) : StateText(state)[i] \notin VALID_STATE_PATTERN
    THEN "Invalid state parameter format"
  ELSE "ok"

Logins == 1..MaxLogins
Callbacks == 1..MaxCallbacks
Callers == 1..MaxCallers

VARIABLES
  now,          \* wall clock, seconds
  authState,    \* Redis auth:state:{state}  -> expiry second, 0 when absent
  authPkce,     \* Redis auth:pkce:{state}   -> [value, exp], exp 0 when absent
  sessionKeys,  \* Redis session:{id}        -> [data, exp], exp 0 when absent
  call,         \* direct calls of the transaction-store functions, per caller
  consumed,     \* history per state: stores, true validations, verifiers
                \* handed out, token exchanges, session records written
  variant,      \* which callback controller is deployed
  made,         \* the last session record computed, in milliseconds
  sessionStore, \* SessionStore: the last call and what createSession was given
  pg,           \* requests for '/' and '/upload-document', one per slot
  browser,      \* what left the server: states in authorization URLs, session
                \* cookies; and how many states and session ids were drawn
  lg,           \* GET /login requests
  cb            \* GET /auth/callback requests

vars == <<now, authState, authPkce, sessionKeys, call, consumed, variant, made, sessionStore, pg, browser, lg, cb>>
redis == <<authState, authPkce, sessionKeys>>

(***************************************************************************)
(* Redis commands on the three key families.  A key set with EX ttl is     *)
(* gone once ttl seconds have passed.                                      *)
(***************************************************************************)
NoEntry == [value |-> Null, exp |-> 0]
NoSessionData == [session_id |-> "", created_at |-> 0, expires_at |-> 0,
                  session_token |-> [session_id |-> "", iat |-> 0, exp |-> 0]]
NoSessionEntry == [value |-> NoSessionData, exp |-> 0]

\* whether GET key finds a value
RedisHas(entries, s, t) == s \in DOMAIN entries /\ entries[s].exp > t

\* EXISTS key: the number of keys that exist
RedisExists(keys, s, t) == IF s \in DOMAIN keys /\ keys[s] > t THEN 1 ELSE 0

\* GET key: the value, or null
RedisGet(entries, s, t) ==
  IF s \in DOMAIN entries /\ entries[s].exp > t THEN entries[s].value ELSE Null

\* SET key value EX ttl
RedisSetMarker_TtlInMinutes(keys, s, t, ttl) == [keys EXCEPT ![s] = t + ttl * 60]
RedisSet_Dropped(entries, s, v, t, ttl) == entries
RedisSetMarker(keys, s, t, ttl) == [keys EXCEPT ![s] = t + ttl]
RedisSet(entries, s, v, t, ttl) == [entries EXCEPT ![s] = [value |-> v, exp |-> t + ttl]]

\* DEL key
RedisDelMarker(keys, s) == IF s \in DOMAIN keys THEN [keys EXCEPT ![s] = 0] ELSE keys
RedisDel(entries, s, none) == IF s \in DOMAIN entries THEN [entries EXCEPT ![s] = none] ELSE entries

\* passive TTL eviction at time t
EvictMarkers(keys, t) == [s \in DOMAIN keys |-> IF keys[s] > t THEN keys[s] ELSE 0]
Evict(entries, t, none) == [s \in DOMAIN entries |-> IF entries[s].exp > t THEN entries[s] ELSE none]

(***************************************************************************)
(* oauth-state-storage.js: the decisions of validateStateParameter and     *)
(* retrievePkceVerifier                                                    *)
(***************************************************************************)
\* if (exists) { await redisClient.del(key) }
ValidateDeletes_NeverDeletes(exists) == FALSE
ValidateDeletes(exists) == exists # 0
\* return exists === 1
ValidateResult(exists) == exists = 1
\* if (codeVerifier) { await redisClient.del(key) }
RetrieveDeletes(codeVerifier) == Truthy(codeVerifier)

(***************************************************************************)
(* The clock                                                               *)
(***************************************************************************)
Tick ==
  /\ now < MaxTime
  /\ now' = now + TickSeconds
  /\ authState' = EvictMarkers(authState, now')
  /\ authPkce' = Evict(authPkce, now', NoEntry)
  /\ sessionKeys' = Evict(sessionKeys, now', NoSessionEntry)
  /\ UNCHANGED <<call, consumed, variant, made, sessionStore, pg, browser, lg, cb>>

(***************************************************************************)
(* History kept for the properties: per generated state, how often it was  *)
(* stored, validated as true, its verifier handed out, a token exchange    *)
(* started for it and a session record written for it.                     *)
(***************************************************************************)
NoConsumption == [stores |-> 0, valid |-> 0, pkceStores |-> 0, pkce |-> 0,
                  exchanges |-> 0, sessions |-> 0, storedAt |-> 0, pkceStoredAt |-> 0]

Count(hist, s, field, yes) ==
  IF yes /\ s \in DOMAIN hist THEN [hist EXCEPT ![s][field] = @ + 1] ELSE hist

\* a store of the marker ("stores") or of the verifier ("pkceStores") at t
Stored(hist, s, field, t) ==
  IF s \in DOMAIN hist
    THEN [hist EXCEPT ![s][field] = @ + 1,
                      ![s][IF field = "stores" THEN "storedAt" ELSE "pkceStoredAt"] = t]
    ELSE hist

(***************************************************************************)
(* Direct calls of the four transaction-store functions, as the unit tests *)
(* of oauth-state-storage make them.  A caller runs one call at a time;    *)
(* calls of different callers interleave at the awaits.  A returned call   *)
(* is observed and its caller released before anything else runs.          *)
(***************************************************************************)
BoolStr(b) == IF b THEN "true" ELSE "false"

IdleCall == [fn |-> "none", pc |-> "idle", state |-> "", exists |-> 0,
             codeVerifier |-> Null, result |-> "none", dels |-> 0,
             liveBefore |-> FALSE, liveAfter |-> FALSE]

\* a new call takes the first caller that is free
CallIdle(k) == call[k].pc = "idle" /\ \A j \in Callers : j < k => call[j].pc # "idle"
NoCallInFlight == \A k \in Callers : call[k].pc = "idle"
SomeCallReturned == \E k \in Callers : call[k].pc = "returned"

\* storeStateParameter(state): SET auth:state:{state} '1' EX 300
storeStateParameter(k, s, fault) ==
  /\ CallIdle(k)
  /\ IF fault
       THEN /\ call' = [call EXCEPT ![k] = [IdleCall EXCEPT !.fn = "storeStateParameter",
                          !.pc = "returned", !.state = s, !.result = "throw"]]
            /\ UNCHANGED <<authState, consumed>>
       ELSE /\ authState' = RedisSetMarker(authState, s, now, STATE_TTL_SECONDS)
            /\ consumed' = Stored(consumed, s, "stores", now)
            /\ call' = [call EXCEPT ![k] = [IdleCall EXCEPT !.fn = "storeStateParameter",
                          !.pc = "returned", !.state = s, !.result = "ok",
                          !.liveAfter = TRUE]]
  /\ UNCHANGED <<now, authPkce, sessionKeys, variant, made, sessionStore, pg, browser, lg, cb>>

\* storePkceVerifier(state, codeVerifier): SET auth:pkce:{state} verifier EX 300
storePkceVerifier(k, s, v, fault) ==
  /\ CallIdle(k)
  /\ IF fault
       THEN /\ call' = [call EXCEPT ![k] = [IdleCall EXCEPT !.fn = "storePkceVerifier",
                          !.pc = "returned", !.state = s, !.result = "throw"]]
            /\ UNCHANGED <<authPkce, consumed>>
       ELSE /\ authPkce' = RedisSet(authPkce, s, v, now, STATE_TTL_SECONDS)
            /\ consumed' = Stored(consumed, s, "pkceStores", now)
            /\ call' = [call EXCEPT ![k] = [IdleCall EXCEPT !.fn = "storePkceVerifier",
                          !.pc = "returned", !.state = s, !.result = "ok",
                          !.codeVerifier = v, !.liveAfter = TRUE]]
  /\ UNCHANGED <<now, authState, sessionKeys, variant, made, sessionStore, pg, browser, lg, cb>>

\* validateStateParameter(state), up to the first await: EXISTS auth:state:{state}
validateStateParameter(k, s, fault) ==
  /\ CallIdle(k)
  /\ LET exists == RedisExists(authState, s, now)
         c0 == [IdleCall EXCEPT !.fn = "validateStateParameter", !.state = s,
                  !.liveBefore = (exists = 1)]
     IN IF fault
          THEN call' = [call EXCEPT ![k] = [c0 EXCEPT !.pc = "returned", !.result = "throw"]]
          ELSE IF ValidateDeletes(exists)
            THEN call' = [call EXCEPT ![k] = [c0 EXCEPT !.pc = "del", !.exists = exists]]
            ELSE call' = [call EXCEPT ![k] = [c0 EXCEPT !.pc = "returned",
                            !.exists = exists,
                            !.result = BoolStr(ValidateResult(exists)),
                            !.liveAfter = (exists = 1)]]
  /\ UNCHANGED <<now, redis, consumed, variant, made, sessionStore, pg, browser, lg, cb>>

\* validateStateParameter, second await: DEL auth:state:{state}; return exists === 1
validateStateParameterDel(k, fault) ==
  /\ call[k].fn = "validateStateParameter" /\ call[k].pc = "del"
  /\ LET s == call[k].state
         res == ValidateResult(call[k].exists)
     IN IF fault
          THEN /\ call' = [call EXCEPT ![k].pc = "returned", ![k].result = "throw",
                             ![k].liveAfter = (RedisExists(authState, s, now) = 1)]
               /\ UNCHANGED <<authState, consumed>>
          ELSE /\ authState' = RedisDelMarker(authState, s)
               /\ call' = [call EXCEPT ![k].pc = "returned", ![k].result = BoolStr(res),
                             ![k].dels = 1,
                             ![k].liveAfter = (RedisExists(authState', s, now) = 1)]
               /\ consumed' = Count(consumed, s, "valid", res)
  /\ UNCHANGED <<now, authPkce, sessionKeys, variant, made, sessionStore, pg, browser, lg, cb>>

\* retrievePkceVerifier(state), up to the first await: GET auth:pkce:{state}
retrievePkceVerifier(k, s, fault) ==
  /\ CallIdle(k)
  /\ LET codeVerifier == RedisGet(authPkce, s, now)
         c0 == [IdleCall EXCEPT !.fn = "retrievePkceVerifier", !.state = s,
                  !.liveBefore = (codeVerifier # Null)]
     IN IF fault
          THEN call' = [call EXCEPT ![k] = [c0 EXCEPT !.pc = "returned", !.result = "throw"]]
          ELSE IF RetrieveDeletes(codeVerifier)
            THEN call' = [call EXCEPT ![k] = [c0 EXCEPT !.pc = "del",
                            !.codeVerifier = codeVerifier]]
            ELSE call' = [call EXCEPT ![k] = [c0 EXCEPT !.pc = "returned",
                            !.codeVerifier = codeVerifier, !.result = codeVerifier,
                            !.liveAfter = (codeVerifier # Null)]]
  /\ UNCHANGED <<now, redis, consumed, variant, made, sessionStore, pg, browser, lg, cb>>

\* retrievePkceVerifier, second await: DEL auth:pkce:{state}; return codeVerifier
retrievePkceVerifierDel(k, fault) ==
  /\ call[k].fn = "retrievePkceVerifier" /\ call[k].pc = "del"
  /\ LET s == call[k].state
     IN IF fault
          THEN /\ call' = [call EXCEPT ![k].pc = "returned", ![k].result = "throw",
                             ![k].liveAfter = (RedisGet(authPkce, s, now) # Null)]
               /\ UNCHANGED <<authPkce, consumed>>
          ELSE /\ authPkce' = RedisDel(authPkce, s, NoEntry)
               /\ call' = [call EXCEPT ![k].pc = "returned",
                             ![k].result = call[k].codeVerifier, ![k].dels = 1,
                             ![k].liveAfter = (RedisGet(authPkce', s, now) # Null)]
               /\ consumed' = Count(consumed, s, "pkce", TRUE)
  /\ UNCHANGED <<now, authState, sessionKeys, variant, made, sessionStore, pg, browser, lg, cb>>

\* the caller takes the result; it may call again
CallRelease(k) ==
  /\ call[k].pc = "returned"
  /\ call' = [call EXCEPT ![k] = IdleCall]
  /\ UNCHANGED <<now, redis, consumed, variant, made, sessionStore, pg, browser, lg, cb>>

(***************************************************************************)
(* Configuration: azure-ad-config.js validateAndGetAzureAdConfig reads     *)
(* config at every call and throws when a required field is empty.         *)
(***************************************************************************)
AzureAdFields == {"baseUrl", "clientId", "clientSecret", "redirectUri", "tenantId",
                  "authorizeEndpoint", "tokenEndpoint"}
AuthorizeRequiredFields == {"baseUrl", "clientId", "redirectUri", "tenantId",
                            "authorizeEndpoint"}
TokenRequiredFields == {"baseUrl", "clientId", "clientSecret", "redirectUri", "tenantId",
                        "tokenEndpoint"}
\* the populated fields a deployment may have
ConfigChoices == {AzureAdFields, AzureAdFields \ {"clientSecret"}, AzureAdFields \ {"tenantId"}}

\* missingFields of validateAndGetAzureAdConfig; it throws when this is not empty
MissingFields(populated, requiredFields) == requiredFields \ populated

\* generatePkceChallenge: the challenge is the SHA-256 of the verifier
codeChallengeOf(verifier) == <<"S256", verifier>>

(***************************************************************************)
(* session-manager.js / sessionRepository: createSession and getSession    *)
(***************************************************************************)
SessionTtlSeconds == SessionCacheTtlMs \div 1000

\* sessionData of createSession at time t
NewSessionData(sessionId, t) ==
  [session_id |-> sessionId, created_at |-> t, expires_at |-> t + SessionTtlSeconds,
   session_token |-> [session_id |-> sessionId, iat |-> t, exp |-> t + SessionTtlSeconds]]

\* a stored text that is not JSON; JSON.parse(sessionData) throws on it and
\* the catch block of getSession returns null
NotJson == [NoSessionData EXCEPT !.session_id = "<not json>"]
Parses(data) == data # NotJson

\* an expires_at that new Date() cannot parse; 0 stands for a record that
\* has no expires_at at all.  Either gives an Invalid Date, and every
\* comparison with an Invalid Date is false.
InvalidDate == 0 - 1
ValidDate(x) == x # 0 /\ x # InvalidDate

\* session-manager getSession after the GET: null when there is no data, no
\* expires_at, an invalid one, or now >= expiresAt
SessionManagerAccepts_AtExpiry(found, data, t) ==
  found /\ Parses(data) /\ ValidDate(data.expires_at) /\ ~(t > data.expires_at)
SessionManagerAccepts(found, data, t) ==
  found /\ Parses(data) /\ ValidDate(data.expires_at) /\ ~(t >= data.expires_at)

\* sessionRepository getSession after the GET: null when there is no data; an
\* expired record (expiresAt < now) is deleted and null returned; without
\* expires_at the date is invalid and the comparison false
RepositoryExpired(found, data, t) ==
  found /\ Parses(data) /\ ValidDate(data.expires_at) /\ data.expires_at < t
RepositoryAccepts(found, data, t) == found /\ Parses(data) /\ ~RepositoryExpired(found, data, t)

(***************************************************************************)
(* session-store.js: class SessionStore, CRUD on session:{id} with the     *)
(* payload serialized as JSON.  A JS string value is modelled by its text  *)
(* (one repeated character for the long ones) and its String.length.       *)
(***************************************************************************)
Absent == [kind |-> "undefined", chars |-> "", len |-> 0]
Str(text) == [kind |-> "string", chars |-> text, len |-> Len(text)]
\* 'x'.repeat(n)
Filler(n) == [kind |-> "string", chars |-> "x", len |-> n]

\* if (!sessionData[field]): undefined and '' are falsy
Falsy(value) == value.kind = "undefined" \/ value.len = 0

requiredFields == <<"user_id", "access_token", "refresh_token", "token_expiry">>
PayloadFields == requiredFields \o <<"profile">>
NoPayload == [f \in {PayloadFields[i] : i \in 1..Len(PayloadFields)} |-> Absent]

\* JSON.stringify(sessionData): the text, as its members (those whose value is
\* not undefined) in property order
JSONstringify(sessionData) ==
  LET Present(f) == sessionData[f].kind # "undefined"
      names == SelectSeq(PayloadFields, Present)
  IN  [members |-> [i \in 1..Len(names) |-> <<names[i], sessionData[names[i]]>>]]

\* JSON.parse(data): an object with the members of the text
JSONparse(data) ==
  [f \in DOMAIN NoPayload |->
     IF \E i \in 1..Len(data.members) : data.members[i][1] = f
       THEN data.members[CHOOSE i \in 1..Len(data.members) : data.members[i][1] = f][2]
       ELSE Absent]

\* the text {"name":"value",...}: braces, and per member two quoted strings,
\* a colon and a comma between members
RECURSIVE MembersLength(_)
MembersLength(members) ==
  IF members = <<>> THEN 0
  ELSE Len(Head(members)[1]) + 2 + 1 + Head(members)[2].len + 2
         + (IF Len(members) > 1 THEN 1 ELSE 0) + MembersLength(Tail(members))
\* String.length of the text
StringLength(data) == 2 + MembersLength(data.members)

\* _validateSessionData: throws when a required field is falsy
validateSessionData_UndefinedOnly(sessionData) ==
  \A i \in 1..Len(requiredFields) : sessionData[requiredFields[i]].kind # "undefined"
validateSessionData(sessionData) ==
  \A i \in 1..Len(requiredFields) : ~Falsy(sessionData[requiredFields[i]])

\* _validateSessionSize: throws when dataSize > maxSize
maxSize == 50000
validateSessionSize_RejectsAtLimit(sessionData) ==
  ~(StringLength(JSONstringify(sessionData)) >= maxSize)
validateSessionSize(sessionData) == ~(StringLength(JSONstringify(sessionData)) > maxSize)

\* const ttlInSeconds = Math.floor(this.sessionTtl / 1000)
ttlInSeconds_Milliseconds(sessionTtl) == sessionTtl
ttlInSeconds(sessionTtl) == sessionTtl \div 1000

MISSING_FIELDS == "Invalid session data: missing required fields"
SIZE_EXCEEDED == "Session data exceeds maximum size limit"
NOT_FOUND == "Session not found"
REDIS_ERROR == "Redis error"

\* one call of a SessionStore method (or of session-manager deleteSession)
\* with what it returned or threw, and which call came before it
NoSessionCall ==
  [fn |-> "none", sessionId |-> "", sessionData |-> NoPayload, result |-> "none",
   error |-> "", returned |-> NoPayload, count |-> 0, existedBefore |-> FALSE,
   cookieCleared |-> FALSE, toolkit |-> FALSE, storeOps |-> 0, before |-> [fn |-> "none", error |-> ""]]
SessionCall(fn, id, t) ==
  [NoSessionCall EXCEPT !.fn = fn, !.sessionId = id,
                        !.before = [fn |-> sessionStore.call.fn,
                                    error |-> sessionStore.call.error],
                        !.existedBefore = RedisHas(sessionKeys, id, t)]
Threw(rec, msg) == [rec EXCEPT !.result = "threw", !.error = msg]

createSession(sessionId, sessionData, fault) ==
  LET rec == [SessionCall("createSession", sessionId, now) EXCEPT !.sessionData = sessionData]
      ok == validateSessionData(sessionData) /\ validateSessionSize(sessionData) /\ ~fault
  IN  /\ sessionKeys' =
           IF ok THEN RedisSet(sessionKeys, sessionId, JSONstringify(sessionData), now,
                               ttlInSeconds(SessionCacheTtlMs))
                 ELSE sessionKeys
      /\ sessionStore' =
           [call |-> IF ~validateSessionData(sessionData) THEN Threw(rec, MISSING_FIELDS)
                     ELSE IF ~validateSessionSize(sessionData) THEN Threw(rec, SIZE_EXCEEDED)
                     ELSE IF fault THEN Threw(rec, REDIS_ERROR)
                     ELSE [rec EXCEPT !.result = "true"],
            created |-> IF ok THEN [sessionStore.created EXCEPT ![sessionId] = sessionData]
                              ELSE sessionStore.created,
            createdAt |-> IF ok THEN [sessionStore.createdAt EXCEPT ![sessionId] = now]
                                ELSE sessionStore.createdAt,
            updating |-> sessionStore.updating]
      /\ UNCHANGED <<now, authState, authPkce, call, consumed, variant, made, pg, browser, lg, cb>>

\* SessionStore.getSession after the GET: null without data, the parsed
\* object, or 'Invalid session data format' when JSON.parse throws
INVALID_FORMAT == "Invalid session data format"
getSessionOutcome_CorruptIsNull(found, data) ==
  IF ~found \/ ~Parses(data) THEN "null" ELSE "data"
getSessionOutcome(found, data) ==
  IF ~found THEN "null" ELSE IF ~Parses(data) THEN "threw" ELSE "data"

getSession(sessionId, fault) ==
  LET rec == SessionCall("getSession", sessionId, now)
      found == RedisHas(sessionKeys, sessionId, now)
      data == sessionKeys[sessionId].value
      outcome == getSessionOutcome(found, data)
  IN  /\ sessionStore' =
           [sessionStore EXCEPT !.call =
              IF fault THEN Threw(rec, REDIS_ERROR)
              ELSE IF outcome = "null" THEN [rec EXCEPT !.result = "null"]
              ELSE IF outcome = "threw" THEN Threw(rec, INVALID_FORMAT)
              ELSE [rec EXCEPT !.result = "data", !.returned = JSONparse(data)]]
      /\ UNCHANGED <<now, redis, call, consumed, variant, made, pg, browser, lg, cb>>

\* an updateSession between its EXISTS and its SETEX
NoUpdate == [pc |-> "idle", sessionId |-> "", sessionData |-> NoPayload, existedBefore |-> FALSE]

\* what updateSession throws ("" when it goes on to the SETEX): a Redis
\* failure, then the EXISTS check, then the field check; no size check
UpdateOutcome_Upsert(exists, sessionData, fault) ==
  IF fault THEN REDIS_ERROR
  ELSE IF ~validateSessionData(sessionData) THEN MISSING_FIELDS
  ELSE ""
UpdateOutcome(exists, sessionData, fault) ==
  IF fault THEN REDIS_ERROR
  ELSE IF ~exists THEN NOT_FOUND
  ELSE IF ~validateSessionData(sessionData) THEN MISSING_FIELDS
  ELSE ""

\* EXISTS, then the field check (no size check), then SETEX; the calls of one
\* caller run one after the other
updateSession(sessionId, sessionData, fault) ==
  LET rec == [SessionCall("updateSession", sessionId, now) EXCEPT !.sessionData = sessionData]
      outcome == UpdateOutcome(RedisHas(sessionKeys, sessionId, now), sessionData, fault)
      ok == outcome = ""
  IN  /\ sessionKeys' =
           IF ok THEN RedisSet(sessionKeys, sessionId, JSONstringify(sessionData), now,
                               ttlInSeconds(SessionCacheTtlMs))
                 ELSE sessionKeys
      /\ sessionStore' =
           [call |-> IF ok THEN [rec EXCEPT !.result = "true"] ELSE Threw(rec, outcome),
            created |-> IF ok THEN [sessionStore.created EXCEPT ![sessionId] = NoPayload]
                              ELSE sessionStore.created,
            createdAt |-> sessionStore.createdAt,
            updating |-> sessionStore.updating]
      /\ UNCHANGED <<now, authState, authPkce, call, consumed, variant, made, pg, browser, lg, cb>>

\* the same method when other callers use the store at the same time: the
\* EXISTS reaches Redis in one step ...
updateSessionExists(sessionId, sessionData, fault) ==
  LET rec == [SessionCall("updateSession", sessionId, now) EXCEPT !.sessionData = sessionData]
      outcome == UpdateOutcome(RedisHas(sessionKeys, sessionId, now), sessionData, fault)
  IN  /\ sessionStore.updating.pc = "idle"
      /\ sessionStore' =
           IF outcome = ""
             THEN [sessionStore EXCEPT !.updating =
                     [pc |-> "setex", sessionId |-> sessionId, sessionData |-> sessionData,
                      existedBefore |-> TRUE]]
             ELSE [sessionStore EXCEPT !.call = Threw(rec, outcome)]
      /\ UNCHANGED <<now, redis, call, consumed, variant, made, pg, browser, lg, cb>>

\* ... and the SETEX in a later one
updateSessionSetex(fault) ==
  LET u == sessionStore.updating
      rec == [SessionCall("updateSession", u.sessionId, now)
                EXCEPT !.sessionData = u.sessionData, !.existedBefore = u.existedBefore]
  IN  /\ u.pc = "setex"
      /\ sessionKeys' =
           IF fault THEN sessionKeys
           ELSE RedisSet(sessionKeys, u.sessionId, JSONstringify(u.sessionData), now,
                         ttlInSeconds(SessionCacheTtlMs))
      /\ sessionStore' =
           [call |-> IF fault THEN Threw(rec, REDIS_ERROR) ELSE [rec EXCEPT !.result = "true"],
            created |-> IF fault THEN sessionStore.created
                        ELSE [sessionStore.created EXCEPT ![u.sessionId] = NoPayload],
            createdAt |-> sessionStore.createdAt,
            updating |-> NoUpdate]
      /\ UNCHANGED <<now, authState, authPkce, call, consumed, variant, made, pg, browser, lg, cb>>

\* what each deleteSession hands back for the DEL count
StoreDeleteResult(count) == "true"
ManagerDeleteResult_AlwaysOne(count) == 1
ManagerDeleteResult(count) == count

\* SessionStore.deleteSession: DEL, then return true
deleteSession(sessionId, fault) ==
  LET rec == SessionCall("SessionStore.deleteSession", sessionId, now)
      count == IF RedisHas(sessionKeys, sessionId, now) THEN 1 ELSE 0
  IN  /\ sessionKeys' = IF fault THEN sessionKeys
                                 ELSE RedisDel(sessionKeys, sessionId, NoSessionEntry)
      /\ sessionStore' =
           [call |-> IF fault THEN Threw(rec, REDIS_ERROR)
                     ELSE [rec EXCEPT !.result = StoreDeleteResult(count)],
            created |-> IF fault THEN sessionStore.created
                        ELSE [sessionStore.created EXCEPT ![sessionId] = NoPayload],
            createdAt |-> sessionStore.createdAt,
            updating |-> sessionStore.updating]
      /\ UNCHANGED <<now, authState, authPkce, call, consumed, variant, made, pg, browser, lg, cb>>

\* session-manager deleteSession(sessionId, h): DEL, clear the cookie when a
\* response toolkit was given, return the count; a Redis error is rethrown
\* after the cookie was cleared
\* if (h) clearSessionCookie(h): after the DEL, and again in the catch block
CookieClearedByDelete_OnlyOnSuccess(h, fault) == h /\ ~fault
CookieClearedByDelete(h, fault) == h

managerDeleteSession(sessionId, h, fault) ==
  LET rec == [SessionCall("sessionManager.deleteSession", sessionId, now)
                EXCEPT !.cookieCleared = CookieClearedByDelete(h, fault), !.toolkit = h]
      count == IF RedisHas(sessionKeys, sessionId, now) THEN 1 ELSE 0
  IN  /\ sessionKeys' = IF fault THEN sessionKeys
                                 ELSE RedisDel(sessionKeys, sessionId, NoSessionEntry)
      /\ sessionStore' =
           [call |-> IF fault THEN Threw(rec, REDIS_ERROR)
                     ELSE [rec EXCEPT !.result = "count", !.count = ManagerDeleteResult(count)],
            created |-> IF fault THEN sessionStore.created
                        ELSE [sessionStore.created EXCEPT ![sessionId] = NoPayload],
            createdAt |-> sessionStore.createdAt,
            updating |-> sessionStore.updating]
      /\ UNCHANGED <<now, authState, authPkce, call, consumed, variant, made, pg, browser, lg, cb>>

\* session-manager getSession called directly: null for a falsy id without a
\* GET; otherwise GET, parse and the expiry check, every error caught
managerGetSession(sessionId, fault) ==
  LET reads == Truthy(sessionId)
      found == reads /\ ~fault /\ RedisHas(sessionKeys, sessionId, now)
      data == IF found THEN sessionKeys[sessionId].value ELSE NoSessionData
      rec == [SessionCall("sessionManager.getSession", sessionId, now)
                EXCEPT !.storeOps = IF reads THEN 1 ELSE 0,
                       !.error = IF reads /\ fault THEN REDIS_ERROR ELSE ""]
  IN  /\ sessionStore' =
           [sessionStore EXCEPT !.call =
              [rec EXCEPT !.result = IF SessionManagerAccepts(found, data, now)
                                       THEN "session" ELSE "null"]]
      /\ UNCHANGED <<now, redis, call, consumed, variant, made, pg, browser, lg, cb>>

\* EXISTS key; return result === 1
sessionExists(sessionId, fault) ==
  LET rec == SessionCall("sessionExists", sessionId, now)
  IN  /\ sessionStore' =
           [sessionStore EXCEPT !.call =
              IF fault THEN Threw(rec, REDIS_ERROR)
              ELSE [rec EXCEPT !.result = BoolStr(RedisHas(sessionKeys, sessionId, now))]]
      /\ UNCHANGED <<now, redis, call, consumed, variant, made, pg, browser, lg, cb>>

(***************************************************************************)
(* createSession in milliseconds.  The clock is read three times: for the  *)
(* token's iat (floored to seconds), for created_at and for expires_at.    *)
(* toISOString keeps the millisecond, so an ISO time is written as its     *)
(* millisecond count.  NewSessionData above is the record when the three   *)
(* reads fall on one whole second.                                         *)
(***************************************************************************)
OneHourMs == 3600000
\* Date.now() around a second boundary
ClockReads == {1000, 1001, 1999, 2000}
\* config session.cache.ttl and session.cookie.ttl, set independently
CacheTtls == {SessionCacheTtlMs, OneHourMs}
CookieTtls == {SessionCacheTtlMs, OneHourMs}

NoSessionMade ==
  [pc |-> "none", fn |-> "", reads |-> <<0, 0, 0>>, cacheTtl |-> 0, cookieTtl |-> 0,
   created_at |-> 0, expires_at |-> 0, iat |-> 0, exp |-> 0, ex |-> 0, maxAge |-> 0]

\* jwt.sign({ iat }, secret, { expiresIn }): exp = iat + expiresIn, in seconds
jwtSign(iat, expiresIn) == [iat |-> iat, exp |-> iat + expiresIn]

\* the Max-Age that h.state writes for a ttl in milliseconds
MaxAge(ttl) == ttl \div 1000

\* createSession of session-manager.js (createSessionData of
\* authCallbackService.js and createSession of sessionRepository compute the
\* same record; there the controller sets the cookie)
createSessionRecord ==
  /\ made.pc = "input"
  /\ LET ttlSeconds == made.cacheTtl \div 1000
         token == jwtSign(made.reads[1] \div 1000, ttlSeconds)
     IN made' = [made EXCEPT !.pc = "made", !.fn = "createSession",
                             !.iat = token.iat, !.exp = token.exp,
                             !.created_at = made.reads[2],
                             !.expires_at = made.reads[3] + made.cacheTtl,
                             !.ex = ttlSeconds,
                             !.maxAge = MaxAge(made.cookieTtl)]
  /\ UNCHANGED <<now, redis, call, consumed, variant, sessionStore, pg, browser, lg, cb>>

\* createAuthenticatedSession: sessionTtl is in seconds; one clock read for
\* the token, one for created_at and expires_at; no cookie
createAuthenticatedSession ==
  /\ made.pc = "input"
  /\ LET sessionTtl == made.cacheTtl \div 1000
         nowSeconds == made.reads[1] \div 1000
         currentTime == made.reads[2]
     IN made' = [made EXCEPT !.pc = "made", !.fn = "createAuthenticatedSession",
                             !.iat = nowSeconds, !.exp = nowSeconds + sessionTtl,
                             !.created_at = currentTime,
                             !.expires_at = currentTime + sessionTtl * 1000,
                             !.ex = sessionTtl]
  /\ UNCHANGED <<now, redis, call, consumed, variant, sessionStore, pg, browser, lg, cb>>

(***************************************************************************)
(* Requests.  A slot holds one request from its arrival to its response;   *)
(* the response is observed (pc = "done") and the slot released before     *)
(* anything else runs, so a slot serves any number of requests in a run.   *)
(***************************************************************************)
NoResponse == [kind |-> "none", errorMessage |-> "", location |-> ""]
ErrorView(msg) == [kind |-> "view", errorMessage |-> msg, location |-> ""]
Redirect(path) == [kind |-> "redirect", errorMessage |-> "", location |-> path]
NoUrl == [state |-> "", code_challenge |-> <<>>]

IdleLogin == [pc |-> "idle", cookie |-> Undefined, session |-> "none",
              state |-> "", codeVerifier |-> "",
              codeChallenge |-> <<>>, stateStore |-> "none", pkceStore |-> "none",
              buildCalls |-> 0, authorizationUrl |-> NoUrl, storeOps |-> 0,
              cookieOut |-> "untouched", response |-> NoResponse]
IdleCallback == [pc |-> "idle", code |-> Undefined, state |-> Undefined,
                 error |-> Undefined, exists |-> 0, isValidState |-> "none",
                 codeVerifier |-> "none", sessionData |-> NoSessionData,
                 storeOps |-> 0, pkceCalls |-> 0, exchangeCalls |-> 0,
                 exchangeResult |-> "none", createCalls |-> 0, written |-> "",
                 writeFailed |-> FALSE, cleanup |-> "none", createError |-> "",
                 threw |-> "", cookie |-> "", response |-> NoResponse]

\* a new request takes the first free slot
FreeLogin(l) == lg[l].pc = "idle" /\ \A m \in Logins : m < l => lg[m].pc # "idle"
FreeCallback(c) == cb[c].pc = "idle" /\ \A d \in Callbacks : d < c => cb[d].pc # "idle"

SomeResponse ==
  \/ \E l \in Logins : lg[l].pc = "done"
  \/ \E c \in Callbacks : cb[c].pc = "done"

(***************************************************************************)
(* GET /login: showLoginFormController                                     *)
(***************************************************************************)
\* no valid session: the handler enters its try block
BeginOauthFlow(rec) == [rec EXCEPT !.pc = "generate"]

\* generateStateParameter(), generatePkceChallenge(): the n-th values drawn
GenerateParameters(rec, n) ==
  [rec EXCEPT !.pc = "storeState",
              !.state = generateStateParameter(n),
              !.codeVerifier = generatePkceVerifier(n),
              !.codeChallenge = codeChallengeOf(generatePkceVerifier(n))]

\* if (session) return h.redirect(HOME_REDIRECT_PATH)
AlreadyAuthenticated_Ignored(session) == FALSE
AlreadyAuthenticated(session) == session # Null

\* handler entry: read the session cookie
LoginStart(l, cookie) ==
  /\ FreeLogin(l)
  /\ LET rec == [lg[l] EXCEPT !.cookie = cookie]
     IN lg' = [lg EXCEPT ![l] = IF Truthy(cookie) THEN [rec EXCEPT !.pc = "getSession"]
                                                  ELSE BeginOauthFlow(rec)]
  /\ UNCHANGED <<now, redis, call, consumed, variant, made, sessionStore, pg, browser, cb>>

\* the handlers for GET /login, '/' and '/upload-document' leave the cookie of the response alone
CookieAfterValidation_ClearedWhenInvalid(session) ==
  IF session = Null THEN "cleared" ELSE "untouched"
CookieAfterValidation(session) == "untouched"

\* getSession(sessionId): GET session:{id}; a valid session redirects home.
\* A read failure is caught inside getSession and gives null.  The
\* repository variant deletes an expired record before it returns null.
LoginGetSession(l, fault) ==
  /\ lg[l].pc = "getSession"
  /\ LET id == lg[l].cookie
         found == ~fault /\ RedisHas(sessionKeys, id, now)
         data == IF found THEN sessionKeys[id].value ELSE NoSessionData
         valid == IF variant = "inline" THEN SessionManagerAccepts(found, data, now)
                                        ELSE RepositoryAccepts(found, data, now)
         session == IF valid THEN "session" ELSE Null
         rec == [lg[l] EXCEPT !.storeOps = @ + 1, !.session = session,
                              !.cookieOut = CookieAfterValidation(session)]
     IN /\ lg' = [lg EXCEPT ![l] =
                   IF AlreadyAuthenticated(session)
                     THEN [rec EXCEPT !.pc = "done",
                                      !.response = Redirect(HOME_REDIRECT_PATH)]
                     ELSE BeginOauthFlow(rec)]
        /\ sessionKeys' = IF variant = "service" /\ RepositoryExpired(found, data, now)
                            THEN RedisDel(sessionKeys, id, NoSessionEntry)
                            ELSE sessionKeys
  /\ UNCHANGED <<now, authState, authPkce, call, consumed, variant, made, sessionStore, pg, browser, cb>>

\* the security parameters are generated; the handler runs on to its first
\* await, storeStateParameter
LoginGenerate(l) ==
  /\ lg[l].pc = "generate"
  /\ browser.statesDrawn < MaxStates
  /\ lg' = [lg EXCEPT ![l] = GenerateParameters(lg[l], browser.statesDrawn)]
  /\ browser' = [browser EXCEPT !.statesDrawn = @ + 1]
  /\ UNCHANGED <<now, redis, call, consumed, variant, made, sessionStore, pg, cb>>

\* catch (error): the login view with the service-unavailable message
LoginFailed_GenericMessage(rec) ==
  [rec EXCEPT !.pc = "done", !.response = ErrorView(AUTHENTICATION_FAILED)]
LoginFailed(rec) ==
  [rec EXCEPT !.pc = "done", !.response = ErrorView(AZURE_AD_UNAVAILABLE)]

\* await storeStateParameter(state)
LoginStoreState(l, fault) ==
  /\ lg[l].pc = "storeState"
  /\ LET rec == [lg[l] EXCEPT !.storeOps = @ + 1]
     IN IF fault
          THEN /\ lg' = [lg EXCEPT ![l] = LoginFailed([rec EXCEPT !.stateStore = "threw"])]
               /\ UNCHANGED <<authState, consumed>>
          ELSE /\ authState' = RedisSetMarker(authState, lg[l].state, now, STATE_TTL_SECONDS)
               /\ consumed' = Stored(consumed, lg[l].state, "stores", now)
               /\ lg' = [lg EXCEPT ![l] = [rec EXCEPT !.stateStore = "ok",
                                                     !.pc = "storePkce"]]
  /\ UNCHANGED <<now, authPkce, sessionKeys, call, variant, made, sessionStore, pg, browser, cb>>

\* await storePkceVerifier(state, codeVerifier); buildAuthorizationUrl; redirect
LoginStorePkce(l, fault, populated) ==
  /\ lg[l].pc = "storePkce"
  /\ LET rec == [lg[l] EXCEPT !.storeOps = @ + 1]
         url == [state |-> lg[l].state, code_challenge |-> lg[l].codeChallenge]
     IN IF fault
          THEN /\ lg' = [lg EXCEPT ![l] = LoginFailed([rec EXCEPT !.pkceStore = "threw"])]
               /\ UNCHANGED <<authPkce, consumed, browser>>
          ELSE /\ authPkce' = RedisSet(authPkce, lg[l].state, lg[l].codeVerifier, now,
                                       STATE_TTL_SECONDS)
               /\ consumed' = Stored(consumed, lg[l].state, "pkceStores", now)
               /\ IF MissingFields(populated, AuthorizeRequiredFields) # {}
                    THEN /\ lg' = [lg EXCEPT ![l] =
                                    LoginFailed([rec EXCEPT !.pkceStore = "ok",
                                                            !.buildCalls = @ + 1])]
                         /\ UNCHANGED browser
                    ELSE /\ lg' = [lg EXCEPT ![l] = [rec EXCEPT !.pc = "done",
                                     !.pkceStore = "ok", !.buildCalls = @ + 1,
                                     !.authorizationUrl = url,
                                     !.response = Redirect("authorize")]]
                         /\ browser' = [browser EXCEPT !.states = @ \cup {lg[l].state}]
  /\ UNCHANGED <<now, authState, sessionKeys, call, variant, made, sessionStore, pg, cb>>

\* the response is sent
LoginRelease(l) ==
  /\ lg[l].pc = "done"
  /\ lg' = [lg EXCEPT ![l] = IdleLogin]
  /\ UNCHANGED <<now, redis, call, consumed, variant, made, sessionStore, pg, browser, cb>>

(***************************************************************************)
(* GET /auth/callback: authCallbackController.  The "inline" variant is    *)
(* login/controller.js with session-manager.js; the "service" variant is   *)
(* the controller over authenticateWithCallback, sessionRepository and     *)
(* cookie-manager.  Each await of the handler is one step.                 *)
(***************************************************************************)
\* if (error)
HasProviderError(error) == Truthy(error)

\* if (!code || !state)
MissingRequiredParams_BothMissing(code, state) == ~Truthy(code) /\ ~Truthy(state)
MissingRequiredParams(code, state) == ~Truthy(code) \/ ~Truthy(state)

\* inline controller: the views returned at lines 203-207 and 228-232, and
\* the catch block
InlineFailureMessage_RendersErrorCode(errCode) == errCode
InlineFailureMessage(errCode) ==
  IF errCode = "INVALID_STATE" \/ errCode = "MISSING_PKCE"
    THEN AUTHENTICATION_REQUEST_EXPIRED
    ELSE AUTHENTICATION_FAILED

\* service controller: caughtError.code picks the message
ServiceFailureMessage_PkceIsGeneric(errCode) ==
  IF errCode = "INVALID_STATE"
    THEN AUTHENTICATION_REQUEST_EXPIRED
    ELSE AUTHENTICATION_FAILED
ServiceFailureMessage(errCode) ==
  IF errCode = "INVALID_STATE" \/ errCode = "MISSING_PKCE"
    THEN AUTHENTICATION_REQUEST_EXPIRED
    ELSE AUTHENTICATION_FAILED

FailureMessage_ThrowIsExpired(v, errCode) ==
  IF errCode = "" THEN AUTHENTICATION_REQUEST_EXPIRED
  ELSE IF v = "inline" THEN InlineFailureMessage(errCode) ELSE ServiceFailureMessage(errCode)
FailureMessage(v, errCode) ==
  IF v = "inline" THEN InlineFailureMessage(errCode) ELSE ServiceFailureMessage(errCode)

\* the request ends with the login view carrying the failure message
Failed(rec, errCode) ==
  [rec EXCEPT !.pc = "done", !.response = ErrorView(FailureMessage(variant, errCode))]

\* if (!isValidState)
AfterValidate_FalseContinues(rec, isValid) ==
  [rec EXCEPT !.isValidState = BoolStr(isValid), !.pc = "retrieve"]
AfterValidate(rec, isValid) ==
  IF isValid
    THEN [rec EXCEPT !.isValidState = "true", !.pc = "retrieve"]
    ELSE Failed([rec EXCEPT !.isValidState = "false"], "INVALID_STATE")

\* if (!codeVerifier)
AfterRetrieve(rec, codeVerifier) ==
  IF Truthy(codeVerifier)
    THEN [rec EXCEPT !.codeVerifier = codeVerifier, !.pc = "exchange"]
    ELSE Failed([rec EXCEPT !.codeVerifier = codeVerifier], "MISSING_PKCE")

\* handler entry: const { code, state, error } = request.query
CallbackStart(c, code, state, error) ==
  /\ FreeCallback(c)
  /\ LET rec == [IdleCallback EXCEPT !.code = code, !.state = state, !.error = error]
     IN cb' = [cb EXCEPT ![c] =
          IF HasProviderError(error)
            THEN [rec EXCEPT !.pc = "done", !.response = ErrorView(AZURE_AD_UNAVAILABLE)]
          ELSE IF MissingRequiredParams(code, state)
            THEN [rec EXCEPT !.pc = "done",
                             !.response = ErrorView(INVALID_AUTHENTICATION_RESPONSE)]
          ELSE [rec EXCEPT !.pc = "validate"]]
  /\ UNCHANGED <<now, redis, call, consumed, variant, made, sessionStore, pg, browser, lg>>

\* validateStateParameter(state): EXISTS
CallbackValidateExists(c, fault) ==
  /\ cb[c].pc = "validate"
  /\ LET exists == RedisExists(authState, cb[c].state, now)
         rec == [cb[c] EXCEPT !.storeOps = @ + 1, !.exists = exists]
     IN /\ cb' = [cb EXCEPT ![c] =
             IF fault THEN Failed([rec EXCEPT !.exists = 0,
                                               !.threw = "validateStateParameter"], "")
             ELSE IF ValidateDeletes(exists) THEN [rec EXCEPT !.pc = "validateDel"]
             ELSE AfterValidate(rec, ValidateResult(exists))]
        /\ consumed' = Count(consumed, cb[c].state, "valid",
                             ~fault /\ ~ValidateDeletes(exists) /\ ValidateResult(exists))
  /\ UNCHANGED <<now, redis, call, variant, made, sessionStore, pg, browser, lg>>

\* validateStateParameter(state): DEL, return exists === 1
CallbackValidateDel(c, fault) ==
  /\ cb[c].pc = "validateDel"
  /\ LET rec == [cb[c] EXCEPT !.storeOps = @ + 1]
         res == ValidateResult(cb[c].exists)
     IN IF fault
          THEN /\ cb' = [cb EXCEPT ![c] =
                          Failed([rec EXCEPT !.threw = "validateStateParameter"], "")]
               /\ UNCHANGED <<authState, consumed>>
          ELSE /\ authState' = RedisDelMarker(authState, cb[c].state)
               /\ consumed' = Count(consumed, cb[c].state, "valid", res)
               /\ cb' = [cb EXCEPT ![c] = AfterValidate(rec, res)]
  /\ UNCHANGED <<now, authPkce, sessionKeys, call, variant, made, sessionStore, pg, browser, lg>>

\* retrievePkceVerifier(state): GET
CallbackRetrieveGet(c, fault) ==
  /\ cb[c].pc = "retrieve"
  /\ LET codeVerifier == RedisGet(authPkce, cb[c].state, now)
         rec == [cb[c] EXCEPT !.storeOps = @ + 1, !.pkceCalls = @ + 1]
     IN cb' = [cb EXCEPT ![c] =
          IF fault THEN Failed([rec EXCEPT !.threw = "retrievePkceVerifier"], "")
          ELSE IF RetrieveDeletes(codeVerifier)
            THEN [rec EXCEPT !.codeVerifier = codeVerifier, !.pc = "retrieveDel"]
          ELSE AfterRetrieve(rec, codeVerifier)]
  /\ UNCHANGED <<now, redis, call, consumed, variant, made, sessionStore, pg, browser, lg>>

\* retrievePkceVerifier(state): DEL, return codeVerifier
CallbackRetrieveDel(c, fault) ==
  /\ cb[c].pc = "retrieveDel"
  /\ LET rec == [cb[c] EXCEPT !.storeOps = @ + 1]
     IN IF fault
          THEN /\ cb' = [cb EXCEPT ![c] =
                          Failed([rec EXCEPT !.threw = "retrievePkceVerifier"], "")]
               /\ UNCHANGED <<authPkce, consumed>>
          ELSE /\ authPkce' = RedisDel(authPkce, cb[c].state, NoEntry)
               /\ consumed' = Count(consumed, cb[c].state, "pkce", TRUE)
               /\ cb' = [cb EXCEPT ![c] = AfterRetrieve(rec, cb[c].codeVerifier)]
  /\ UNCHANGED <<now, authState, sessionKeys, call, variant, made, sessionStore, pg, browser, lg>>

\* exchangeCodeForTokens(code, codeVerifier): the configuration is validated,
\* then the token endpoint answers; !response.ok and a rejected fetch throw.
\* On success createSession runs up to its await of SET session:{id}.
TokenOutcomes == {"ok", "http_400", "network_error"}

\* if (!response.ok) throw; a rejected fetch throws by itself
TokenResponseOk_Http400Passes(outcome) == outcome \in {"ok", "http_400"}
TokenResponseOk(outcome) == outcome = "ok"

\* the name and options h.state is given: setCookieWithSessionId of
\* session-manager.js in the inline controller, setSessionCookie of the
\* cookie manager in the service controller
CookieOptions(v) ==
  [name |-> "session", isHttpOnly |-> TRUE, path |-> "/",
   isSameSite |-> IF v = "inline" THEN "Strict" ELSE "Lax"]

\* the cookie after the SET of createSession: a SET that throws skips
\* setCookieWithSessionId / setSessionCookie
CookieAfterSet_EvenOnFailure(setThrew, sessionId) == sessionId
CookieAfterSet(setThrew, sessionId) == IF setThrew THEN "" ELSE sessionId

CallbackExchange(c, populated, outcome) ==
  /\ cb[c].pc = "exchange"
  /\ LET rec == [cb[c] EXCEPT !.exchangeCalls = @ + 1]
         sessionId == randomUUID(browser.idsDrawn)
     IN /\ consumed' = Count(consumed, cb[c].state, "exchanges", TRUE)
        /\ IF MissingFields(populated, TokenRequiredFields) # {}
             THEN /\ cb' = [cb EXCEPT ![c] =
                             Failed([rec EXCEPT !.exchangeResult = "config_error",
                                                !.threw = "exchangeCodeForTokens"], "")]
                  /\ UNCHANGED browser
           ELSE IF ~TokenResponseOk(outcome)
             THEN /\ cb' = [cb EXCEPT ![c] =
                             Failed([rec EXCEPT !.exchangeResult = outcome,
                                                !.threw = "exchangeCodeForTokens"], "")]
                  /\ UNCHANGED browser
           ELSE /\ browser.idsDrawn < MaxSessions
                /\ cb' = [cb EXCEPT ![c] =
                           [rec EXCEPT !.exchangeResult = outcome, !.createCalls = @ + 1,
                                       !.sessionData = NewSessionData(sessionId, now),
                                       !.pc = "sessionSet"]]
                /\ browser' = [browser EXCEPT !.idsDrawn = @ + 1]
  /\ UNCHANGED <<now, redis, call, variant, made, sessionStore, pg, lg>>

\* createSession: SET session:{id} JSON EX ttlSeconds, then the cookie is set
\* (setCookieWithSessionId inside createSession, or setSessionCookie in the
\* controller) and the handler redirects home.  A failed SET goes to the
\* catch block of createSession.
CallbackSessionSet(c, fault) ==
  /\ cb[c].pc = "sessionSet"
  /\ LET rec == [cb[c] EXCEPT !.storeOps = @ + 1]
         id == cb[c].sessionData.session_id
     IN IF fault
          THEN /\ cb' = [cb EXCEPT ![c] = [rec EXCEPT !.writeFailed = TRUE,
                            !.cookie = CookieAfterSet(TRUE, id), !.pc = "sessionCleanup"]]
               /\ UNCHANGED <<sessionKeys, consumed, browser>>
          ELSE /\ sessionKeys' = RedisSet(sessionKeys, id, cb[c].sessionData, now,
                                          SessionTtlSeconds)
               /\ consumed' = Count(consumed, cb[c].state, "sessions", TRUE)
               /\ browser' = [browser EXCEPT !.cookies = @ \cup {id}]
               /\ cb' = [cb EXCEPT ![c] = [rec EXCEPT !.written = id,
                            !.cookie = CookieAfterSet(FALSE, id),
                            !.pc = "done", !.response = Redirect(HOME_REDIRECT_PATH)]]
  /\ UNCHANGED <<now, authState, authPkce, call, variant, made, sessionStore, pg, lg>>

\* what createSession throws after a failed SET
SESSION_CREATION_FAILED == "Session creation failed"
CreateSessionThrows(writeError) == SESSION_CREATION_FAILED

\* createSession catch: DEL session:{id} ignoring its failure, then
\* throw new Error('Session creation failed')
CallbackSessionCleanup(c, fault) ==
  /\ cb[c].pc = "sessionCleanup"
  /\ sessionKeys' = IF fault THEN sessionKeys
                    ELSE RedisDel(sessionKeys, cb[c].sessionData.session_id, NoSessionEntry)
  /\ cb' = [cb EXCEPT ![c] =
              Failed([cb[c] EXCEPT !.storeOps = @ + 1,
                                   !.cleanup = IF fault THEN "threw" ELSE "ok",
                                   !.createError = CreateSessionThrows(REDIS_ERROR),
                                   !.threw = "createSession"], "")]
  /\ UNCHANGED <<now, authState, authPkce, call, consumed, variant, made, sessionStore, pg, browser, lg>>

\* the response is sent
CallbackRelease(c) ==
  /\ cb[c].pc = "done"
  /\ cb' = [cb EXCEPT ![c] = IdleCallback]
  /\ UNCHANGED <<now, redis, call, consumed, variant, made, sessionStore, pg, browser, lg>>

(***************************************************************************)
(* The protected pages: rootController ('/'), which reads the session with *)
(* getSessionFromId, that is sessionRepository getSession, and             *)
(* uploadDocumentController ('/upload-document'), which reads it with      *)
(* session-manager getSession.  Both readers catch every error and return  *)
(* null; neither handler calls h.state or h.unstate.                       *)
(***************************************************************************)
Pages == 1..MaxPages
LOGIN_PATH == "/login"
UPLOAD_DOCUMENT_PATH == "/upload-document"
Routes == {HOME_REDIRECT_PATH, UPLOAD_DOCUMENT_PATH}
PageView(template) == [kind |-> "view", errorMessage |-> "", location |-> template]

IdlePage == [pc |-> "idle", route |-> "", cookie |-> Undefined, session |-> "none",
             found |-> FALSE, data |-> NoSessionData, lookups |-> 0, storeOps |-> 0,
             threw |-> FALSE,
             deleteFailed |-> FALSE,
             cookieOut |-> "untouched", response |-> NoResponse]
FreePage(p) == pg[p].pc = "idle" /\ \A q \in Pages : q < p => pg[q].pc # "idle"
SomePageResponse == \E p \in Pages : pg[p].pc = "done"

\* where a request that is not authenticated is sent
Anonymous(route) == Redirect(IF route = HOME_REDIRECT_PATH THEN LOGIN_PATH ELSE HOME_REDIRECT_PATH)
\* what an authenticated request gets
Authenticated(route) ==
  IF route = HOME_REDIRECT_PATH THEN Redirect(UPLOAD_DOCUMENT_PATH)
                                ELSE PageView("upload-document/index")

\* if (!session) redirect; otherwise the authenticated outcome
PageOutcome_AlwaysAuthenticated(route, session) == Authenticated(route)
PageOutcome(route, session) ==
  IF session = Null THEN Anonymous(route) ELSE Authenticated(route)

\* what the handler answers when the lookup has thrown: the reader's catch
\* returns null, and the handler's own catch sends the same redirect
OnLookupError_Crash(route) ==
  [kind |-> "error", errorMessage |-> "Internal Server Error", location |-> ""]
OnLookupError(route) == Anonymous(route)

\* if (!sessionId): the handler reads the store only for a cookie that is set
HasSessionCookie_Always(cookie) == TRUE
HasSessionCookie(cookie) == Truthy(cookie)

\* const sessionId = request.state.session; if (!sessionId) redirect
PageStart(p, route, cookie) ==
  /\ FreePage(p)
  /\ LET rec == [pg[p] EXCEPT !.route = route, !.cookie = cookie]
     IN pg' = [pg EXCEPT ![p] =
                 IF HasSessionCookie(cookie) THEN [rec EXCEPT !.pc = "getSession"]
                 ELSE [rec EXCEPT !.pc = "done", !.response = Anonymous(route)]]
  /\ UNCHANGED <<now, redis, call, consumed, variant, made, sessionStore, browser, lg, cb>>

\* getSession(sessionId): null for a falsy id; otherwise GET session:{id},
\* parse, compare expires_at with the clock.  The repository reader goes on
\* to delete an expired record.
PageGetSession(p, fault) ==
  /\ pg[p].pc = "getSession"
  /\ LET id == pg[p].cookie
         reads == Truthy(id)
         found == reads /\ ~fault /\ RedisHas(sessionKeys, id, now)
         data == IF found THEN sessionKeys[id].value ELSE NoSessionData
         repository == pg[p].route = HOME_REDIRECT_PATH
         valid == IF repository THEN RepositoryAccepts(found, data, now)
                                ELSE SessionManagerAccepts(found, data, now)
         session == IF valid THEN "session" ELSE Null
         threw == reads /\ (fault \/ (found /\ ~Parses(data)))
         rec == [pg[p] EXCEPT !.lookups = @ + 1,
                              !.storeOps = IF reads THEN @ + 1 ELSE @,
                              !.session = session,
                              !.found = found, !.data = data, !.threw = threw]
     IN pg' = [pg EXCEPT ![p] =
                 IF repository /\ RepositoryExpired(found, data, now)
                   THEN [rec EXCEPT !.pc = "deleteExpired"]
                   ELSE [rec EXCEPT !.pc = "done",
                                    !.cookieOut = CookieAfterValidation(session),
                                    !.response = IF threw THEN OnLookupError(pg[p].route)
                                                 ELSE PageOutcome(pg[p].route, session)]]
  /\ UNCHANGED <<now, redis, call, consumed, variant, made, sessionStore, browser, lg, cb>>

\* await deleteSession(sessionId) of the repository: DEL, errors swallowed
PageDeleteExpired(p, fault) ==
  /\ pg[p].pc = "deleteExpired"
  /\ sessionKeys' = IF fault THEN sessionKeys
                             ELSE RedisDel(sessionKeys, pg[p].cookie, NoSessionEntry)
  /\ pg' = [pg EXCEPT ![p] = [@ EXCEPT !.pc = "done", !.storeOps = @ + 1,
                                        !.deleteFailed = fault,
                                        !.cookieOut = CookieAfterValidation(pg[p].session),
                                        !.response = PageOutcome(pg[p].route, pg[p].session)]]
  /\ UNCHANGED <<now, authState, authPkce, call, consumed, variant, made, sessionStore, browser, lg, cb>>

PageRelease(p) ==
  /\ pg[p].pc = "done"
  /\ pg' = [pg EXCEPT ![p] = IdlePage]
  /\ UNCHANGED <<now, redis, call, consumed, variant, made, sessionStore, browser, lg, cb>>

(***************************************************************************)
(* The requests a browser can send.  A state or session id is random and   *)
(* unguessable: a request carries one the server handed out, or a forged   *)
(* one.  Query parameters may be absent, empty or set.                     *)
(***************************************************************************)
ForgedSession == "never-issued-session"
QueryCodes == {Undefined, "", AuthCode}
QueryErrors == {Undefined, "", "access_denied", "server_error"}
QueryStates == {Undefined, "", ForgedState, MalformedState} \cup browser.states
LoginCookies == {Undefined, ForgedSession} \cup browser.cookies

\* every code and state without an error parameter; with an error parameter
\* (empty or not) the bare error response and the one carrying code and state
Queries ==
  {<<code, state, Undefined>> : code \in QueryCodes, state \in QueryStates}
    \cup {<<Undefined, Undefined, error>> : error \in QueryErrors}
    \cup {<<AuthCode, state, error>> : state \in QueryStates \ {Undefined, ""},
                                       error \in QueryErrors}

(***************************************************************************)
(* Specifications                                                          *)
(***************************************************************************)
Init ==
  /\ now = 0
  /\ authState = [s \in GenStates |-> 0]
  /\ authPkce = [s \in GenStates |-> NoEntry]
  /\ sessionKeys = [id \in SessionIds |-> NoSessionEntry]
  /\ call = [k \in Callers |-> IdleCall]
  /\ consumed = [s \in GenStates |-> NoConsumption]
  /\ variant \in {"inline", "service"}
  /\ sessionStore = [call |-> NoSessionCall, created |-> [id \in SessionIds |-> NoPayload],
                     createdAt |-> [id \in SessionIds |-> 0], updating |-> NoUpdate]
  /\ browser = [states |-> {}, cookies |-> {}, statesDrawn |-> 0, idsDrawn |-> 0]
  /\ lg = [l \in Logins |-> IdleLogin]
  /\ cb = [c \in Callbacks |-> IdleCallback]
  /\ pg = [p \in Pages |-> IdlePage]
  /\ made = NoSessionMade

\* the requests: every step of the two handlers, with every input
DoLoginStart ==
  ~SomeResponse /\ \E l \in Logins, cookie \in LoginCookies : LoginStart(l, cookie)
DoLoginGetSession ==
  ~SomeResponse /\ \E l \in Logins, fault \in BOOLEAN : LoginGetSession(l, fault)
DoLoginGenerate == ~SomeResponse /\ \E l \in Logins : LoginGenerate(l)
DoLoginStoreState ==
  ~SomeResponse /\ \E l \in Logins, fault \in BOOLEAN : LoginStoreState(l, fault)
DoLoginStorePkce ==
  ~SomeResponse /\ \E l \in Logins, fault \in BOOLEAN, populated \in ConfigChoices :
                     LoginStorePkce(l, fault, populated)
DoLoginRelease == \E l \in Logins : LoginRelease(l)
DoCallbackStart ==
  ~SomeResponse /\ \E c \in Callbacks, q \in Queries : CallbackStart(c, q[1], q[2], q[3])
DoCallbackValidateExists ==
  ~SomeResponse /\ \E c \in Callbacks, fault \in BOOLEAN : CallbackValidateExists(c, fault)
DoCallbackValidateDel ==
  ~SomeResponse /\ \E c \in Callbacks, fault \in BOOLEAN : CallbackValidateDel(c, fault)
DoCallbackRetrieveGet ==
  ~SomeResponse /\ \E c \in Callbacks, fault \in BOOLEAN : CallbackRetrieveGet(c, fault)
DoCallbackRetrieveDel ==
  ~SomeResponse /\ \E c \in Callbacks, fault \in BOOLEAN : CallbackRetrieveDel(c, fault)
DoCallbackExchange ==
  ~SomeResponse /\ \E c \in Callbacks, populated \in ConfigChoices, outcome \in TokenOutcomes :
                     CallbackExchange(c, populated, outcome)
DoCallbackSessionSet ==
  ~SomeResponse /\ \E c \in Callbacks, fault \in BOOLEAN : CallbackSessionSet(c, fault)
DoCallbackSessionCleanup ==
  ~SomeResponse /\ \E c \in Callbacks, fault \in BOOLEAN : CallbackSessionCleanup(c, fault)
DoCallbackRelease == \E c \in Callbacks : CallbackRelease(c)
DoTick == ~SomeResponse /\ Tick

Next ==
  \/ DoTick
  \/ DoLoginStart
  \/ DoLoginGetSession
  \/ DoLoginGenerate
  \/ DoLoginStoreState
  \/ DoLoginStorePkce
  \/ DoLoginRelease
  \/ DoCallbackStart
  \/ DoCallbackValidateExists
  \/ DoCallbackValidateDel
  \/ DoCallbackRetrieveGet
  \/ DoCallbackRetrieveDel
  \/ DoCallbackExchange
  \/ DoCallbackSessionSet
  \/ DoCallbackSessionCleanup
  \/ DoCallbackRelease

Spec == Init /\ [][Next]_vars

\* direct calls of the transaction store; a state is stored once.  The
\* verifier is any string, the empty one included (the unit tests store it).
StoredVerifiers == Verifiers \cup {""}
\* a call may start: nothing is waiting to be observed and, for sequential
\* callers, no other call is in flight
MayCall(sequential) == ~SomeCallReturned /\ (sequential => NoCallInFlight)

CallStoreState(sequential) ==
  /\ MayCall(sequential)
  /\ \E k \in Callers, s \in GenStates, fault \in BOOLEAN :
       consumed[s].stores = 0 /\ storeStateParameter(k, s, fault)
CallStorePkce(sequential) ==
  /\ MayCall(sequential)
  /\ \E k \in Callers, s \in GenStates, v \in StoredVerifiers, fault \in BOOLEAN :
       consumed[s].pkceStores = 0 /\ storePkceVerifier(k, s, v, fault)
CallValidate(sequential) ==
  /\ MayCall(sequential)
  /\ \E k \in Callers, s \in GenStates \cup {ForgedState}, fault \in BOOLEAN :
       validateStateParameter(k, s, fault)
CallValidateDel ==
  ~SomeCallReturned /\ \E k \in Callers, fault \in BOOLEAN : validateStateParameterDel(k, fault)
CallRetrieve(sequential) ==
  /\ MayCall(sequential)
  /\ \E k \in Callers, s \in GenStates \cup {ForgedState}, fault \in BOOLEAN :
       retrievePkceVerifier(k, s, fault)
CallRetrieveDel ==
  ~SomeCallReturned /\ \E k \in Callers, fault \in BOOLEAN : retrievePkceVerifierDel(k, fault)
DoCallRelease == \E k \in Callers : CallRelease(k)
TickStorage == ~SomeCallReturned /\ Tick

\* concurrent callers: calls interleave at their awaits
NextStorage ==
  \/ TickStorage
  \/ CallStoreState(FALSE)
  \/ CallStorePkce(FALSE)
  \/ CallValidate(FALSE)
  \/ CallValidateDel
  \/ CallRetrieve(FALSE)
  \/ CallRetrieveDel
  \/ DoCallRelease

SpecStorage == Init /\ [][NextStorage]_vars

\* sequential callers: a call starts when no other call is in flight
NextStorageSeq ==
  \/ TickStorage
  \/ CallStoreState(TRUE)
  \/ CallStorePkce(TRUE)
  \/ CallValidate(TRUE)
  \/ CallValidateDel
  \/ CallRetrieve(TRUE)
  \/ CallRetrieveDel
  \/ DoCallRelease

SpecStorageSeq == Init /\ [][NextStorageSeq]_vars

(***************************************************************************)
(* Calls of the SessionStore methods, one after the other, on a clock that *)
(* reaches the session TTL.                                                *)
(***************************************************************************)
\* payloads: the complete one; one required field missing or empty; nothing
\* at all; and the complete one with a further field that brings the text
\* just under, onto and just over maxSize
RequiredValues == [user_id |-> "u1", access_token |-> "at", refresh_token |-> "rt",
                   token_expiry |-> "2030-01-01T00:00:00Z"]
Complete == [f \in DOMAIN NoPayload |-> IF f = "profile" THEN Absent ELSE Str(RequiredValues[f])]
Room == maxSize - StringLength(JSONstringify([Complete EXCEPT !.profile = Str("")]))
Fillers == {Filler(Room + d) : d \in {0 - 1, 0, 1}}
Payloads ==
  {Complete, NoPayload}
    \cup {[Complete EXCEPT ![requiredFields[i]] = v] : i \in 1..4, v \in {Absent, Str("")}}
    \cup {[Complete EXCEPT !.profile = f] : f \in Fillers}

TickSessionStore ==
  /\ now < MaxSessionTime
  /\ now' = now + SessionTickSeconds
  /\ authState' = EvictMarkers(authState, now')
  /\ authPkce' = Evict(authPkce, now', NoEntry)
  /\ sessionKeys' = Evict(sessionKeys, now', NoSessionEntry)
  /\ UNCHANGED <<call, consumed, variant, made, sessionStore, pg, browser, lg, cb>>

\* updateSession is given a complete payload, an incomplete one or a long one
UpdatePayloads ==
  {Complete, [Complete EXCEPT !.user_id = Str("")], [Complete EXCEPT !.profile = Filler(Room + 1)]}

\* the calls are about one session id
StoreSessionIds == {randomUUID(0)}

DoCreateSession ==
  \E id \in StoreSessionIds, data \in Payloads, fault \in BOOLEAN : createSession(id, data, fault)
DoGetSession == \E id \in StoreSessionIds, fault \in BOOLEAN : getSession(id, fault)
DoUpdateSession ==
  \E id \in StoreSessionIds, data \in UpdatePayloads, fault \in BOOLEAN : updateSession(id, data, fault)
DoStoreDeleteSession == \E id \in StoreSessionIds, fault \in BOOLEAN : deleteSession(id, fault)
DoManagerDeleteSession ==
  \E id \in StoreSessionIds, h \in BOOLEAN, fault \in BOOLEAN : managerDeleteSession(id, h, fault)
DoSessionExists == \E id \in StoreSessionIds, fault \in BOOLEAN : sessionExists(id, fault)

NextSessionStore ==
  \/ TickSessionStore
  \/ DoCreateSession
  \/ DoGetSession
  \/ DoUpdateSession
  \/ DoStoreDeleteSession
  \/ DoManagerDeleteSession
  \/ DoSessionExists

SpecSessionStore == Init /\ [][NextSessionStore]_vars

(***************************************************************************)
(* The SessionStore used by several callers at once: another caller's      *)
(* command can reach Redis between the EXISTS and the SETEX of an update.  *)
(***************************************************************************)
DoUpdateSessionExists ==
  \E id \in StoreSessionIds, data \in UpdatePayloads, fault \in BOOLEAN :
    updateSessionExists(id, data, fault)
DoUpdateSessionSetex == \E fault \in BOOLEAN : updateSessionSetex(fault)
DoCreateCompleteSession ==
  \E id \in StoreSessionIds, fault \in BOOLEAN : createSession(id, Complete, fault)

NextSessionStoreConcurrent ==
  \/ TickSessionStore
  \/ DoCreateCompleteSession
  \/ DoUpdateSessionExists
  \/ DoUpdateSessionSetex
  \/ DoStoreDeleteSession
  \/ DoSessionExists

SpecSessionStoreConcurrent == Init /\ [][NextSessionStoreConcurrent]_vars

(***************************************************************************)
(* Requests for the protected pages and for GET /login against a store     *)
(* that holds session records of every kind a reader can meet.             *)
(***************************************************************************)
\* what session:{id} may hold when the first request arrives: nothing; a
\* record just written; a record written all but one tick of the session TTL
\* ago whose key is still there (the key's TTL runs from the SET, or was
\* extended with EXPIRE); a text that is not JSON; a record without
\* expires_at; a record whose expires_at is not a date
StoredSessions(id) ==
  {NoSessionEntry,
   [value |-> NewSessionData(id, 0), exp |-> SessionTtlSeconds],
   [value |-> NewSessionData(id, TickSeconds - SessionTtlSeconds), exp |-> SessionTtlSeconds],
   [value |-> NotJson, exp |-> SessionTtlSeconds],
   [value |-> [NewSessionData(id, 0) EXCEPT !.expires_at = 0], exp |-> SessionTtlSeconds],
   [value |-> [NewSessionData(id, 0) EXCEPT !.expires_at = InvalidDate],
    exp |-> SessionTtlSeconds]}

InitProtected ==
  /\ now = 0
  /\ authState = [s \in GenStates |-> 0]
  /\ authPkce = [s \in GenStates |-> NoEntry]
  /\ \E stored \in StoredSessions(randomUUID(0)) :
       sessionKeys = [id \in SessionIds |-> IF id = randomUUID(0) THEN stored ELSE NoSessionEntry]
  /\ call = [k \in Callers |-> IdleCall]
  /\ consumed = [s \in GenStates |-> NoConsumption]
  /\ variant \in {"inline", "service"}
  /\ sessionStore = [call |-> NoSessionCall, created |-> [id \in SessionIds |-> NoPayload],
                     createdAt |-> [id \in SessionIds |-> 0], updating |-> NoUpdate]
  /\ browser = [states |-> {}, cookies |-> {randomUUID(0)}, statesDrawn |-> 0, idsDrawn |-> 1]
  /\ lg = [l \in Logins |-> IdleLogin]
  /\ cb = [c \in Callbacks |-> IdleCallback]
  /\ pg = [p \in Pages |-> IdlePage]
  /\ made = NoSessionMade

\* a response is observed and its slot released before anything else runs
Quiet == ~SomeResponse /\ ~SomePageResponse

DoPageStart ==
  Quiet /\ \E p \in Pages, route \in Routes, cookie \in LoginCookies \cup {""} :
             PageStart(p, route, cookie)
DoPageGetSession == Quiet /\ \E p \in Pages, fault \in BOOLEAN : PageGetSession(p, fault)
DoPageDeleteExpired == Quiet /\ \E p \in Pages, fault \in BOOLEAN : PageDeleteExpired(p, fault)
DoPageRelease == \E p \in Pages : PageRelease(p)
\* session-manager deleteSession(sessionId, h), the explicit end of a session
DoExplicitDelete ==
  Quiet /\ \E id \in browser.cookies, h \in BOOLEAN, fault \in BOOLEAN :
             managerDeleteSession(id, h, fault)

NextProtected ==
  \/ Quiet /\ Tick
  \/ DoPageStart
  \/ DoPageGetSession
  \/ DoPageDeleteExpired
  \/ DoPageRelease
  \/ DoExplicitDelete
  \/ ~SomePageResponse /\ DoLoginStart
  \/ ~SomePageResponse /\ DoLoginGetSession
  \/ ~SomePageResponse /\ DoLoginGenerate
  \/ ~SomePageResponse /\ DoLoginStoreState
  \/ ~SomePageResponse /\ DoLoginStorePkce
  \/ DoLoginRelease

SpecProtected == InitProtected /\ [][NextProtected]_vars

(***************************************************************************)
(* The SessionStore reading a key that holds nothing, a payload it wrote,  *)
(* or a text that is not JSON.                                             *)
(***************************************************************************)
StoredTexts ==
  {NoSessionEntry,
   [value |-> JSONstringify(Complete), exp |-> SessionTtlSeconds],
   [value |-> NotJson, exp |-> SessionTtlSeconds]}

InitStoreRead ==
  /\ now = 0
  /\ authState = [s \in GenStates |-> 0]
  /\ authPkce = [s \in GenStates |-> NoEntry]
  /\ \E stored \in StoredTexts :
       sessionKeys = [id \in SessionIds |-> IF id = randomUUID(0) THEN stored ELSE NoSessionEntry]
  /\ call = [k \in Callers |-> IdleCall]
  /\ consumed = [s \in GenStates |-> NoConsumption]
  /\ variant \in {"inline", "service"}
  /\ sessionStore = [call |-> NoSessionCall, created |-> [id \in SessionIds |-> NoPayload],
                     createdAt |-> [id \in SessionIds |-> 0], updating |-> NoUpdate]
  /\ browser = [states |-> {}, cookies |-> {}, statesDrawn |-> 0, idsDrawn |-> 0]
  /\ lg = [l \in Logins |-> IdleLogin]
  /\ cb = [c \in Callbacks |-> IdleCallback]
  /\ pg = [p \in Pages |-> IdlePage]
  /\ made = NoSessionMade

NextStoreRead ==
  \/ TickSessionStore
  \/ DoGetSession
  \/ DoSessionExists
  \/ DoStoreDeleteSession
  \/ DoCreateCompleteSession

SpecStoreRead == InitStoreRead /\ [][NextStoreRead]_vars

(***************************************************************************)
(* session-manager getSession and deleteSession called directly, with any  *)
(* id a caller can pass, on the same stores and clock.                     *)
(***************************************************************************)
GetSessionIds == {Undefined, Null, "", ForgedSession} \cup browser.cookies
DoManagerGetSession ==
  \E id \in GetSessionIds, fault \in BOOLEAN : managerGetSession(id, fault)

NextGetSession ==
  \/ Tick
  \/ DoManagerGetSession
  \/ DoExplicitDelete

SpecGetSession == InitProtected /\ [][NextGetSession]_vars

(***************************************************************************)
(* createSession on every configuration and every run of the clock: the    *)
(* three reads are in order, and may or may not fall on the same           *)
(* millisecond.                                                            *)
(***************************************************************************)
InitCreateSession ==
  /\ now = 0
  /\ authState = [s \in GenStates |-> 0]
  /\ authPkce = [s \in GenStates |-> NoEntry]
  /\ sessionKeys = [id \in SessionIds |-> NoSessionEntry]
  /\ call = [k \in Callers |-> IdleCall]
  /\ consumed = [s \in GenStates |-> NoConsumption]
  /\ variant \in {"inline", "service"}
  /\ sessionStore = [call |-> NoSessionCall, created |-> [id \in SessionIds |-> NoPayload],
                     createdAt |-> [id \in SessionIds |-> 0], updating |-> NoUpdate]
  /\ browser = [states |-> {}, cookies |-> {}, statesDrawn |-> 0, idsDrawn |-> 0]
  /\ lg = [l \in Logins |-> IdleLogin]
  /\ cb = [c \in Callbacks |-> IdleCallback]
  /\ pg = [p \in Pages |-> IdlePage]
  /\ \E m0 \in ClockReads, m1 \in ClockReads, m2 \in ClockReads,
        cacheTtl \in CacheTtls, cookieTtl \in CookieTtls :
       /\ m0 <= m1 /\ m1 <= m2
       /\ made = [NoSessionMade EXCEPT !.pc = "input", !.reads = <<m0, m1, m2>>,
                                       !.cacheTtl = cacheTtl, !.cookieTtl = cookieTtl]

NextCreateSession ==
  \/ createSessionRecord
  \/ createAuthenticatedSession

SpecCreateSession == InitCreateSession /\ [][NextCreateSession]_vars

(***************************************************************************)
(* Properties                                                              *)
(***************************************************************************)
Returned(k, fn) == call[k].fn = fn /\ call[k].pc = "returned" /\ call[k].result # "throw"
Responded(c) == cb[c].pc = "done"
Expired(c) == cb[c].response = ErrorView(AUTHENTICATION_REQUEST_EXPIRED)
AuthFailed(c) == cb[c].response = ErrorView(AUTHENTICATION_FAILED)

\* C1: among concurrent calls for a state stored once, at most one
\* validateStateParameter returns true and at most one retrievePkceVerifier
\* returns the verifier.
C1_AtMostOneConsumer ==
  \A s \in GenStates : consumed[s].valid <= 1 /\ consumed[s].pkce <= 1

\* C2: for a state stored by one login, over all callbacks carrying it,
\* exchangeCodeForTokens is invoked by at most one and at most one session
\* record is written.
C2_AtMostOneExchange ==
  \A s \in GenStates :
    consumed[s].stores <= 1 => consumed[s].exchanges <= 1 /\ consumed[s].sessions <= 1

\* C3: after storeStateParameter(s), sequential validateStateParameter(s)
\* calls return true exactly once: a call that finds the key returns true
\* and deletes it; a call that does not find it returns false and deletes
\* nothing.
C3_ValidateExactlyOnce ==
  /\ \A s \in GenStates :
       /\ consumed[s].valid <= 1
       /\ consumed[s].valid = 1 => RedisExists(authState, s, now) = 0
  /\ \A k \in Callers : Returned(k, "validateStateParameter") =>
       /\ (call[k].result = "true") <=> call[k].liveBefore
       /\ call[k].result = "true" => call[k].dels = 1 /\ ~call[k].liveAfter
       /\ call[k].result = "false" => call[k].dels = 0 /\ ~call[k].liveAfter

\* a second sequential call on a state validated before has returned false
C3_Witness ==
  \E k \in Callers :
    /\ Returned(k, "validateStateParameter")
    /\ call[k].state \in GenStates
    /\ consumed[call[k].state].valid = 1
    /\ call[k].result = "false"

\* C4: after storePkceVerifier(s, v), sequential retrievePkceVerifier(s)
\* calls return v exactly once: a call that finds v returns it and deletes
\* the key; a call that does not returns null and deletes nothing.
C4_RetrieveExactlyOnce ==
  /\ \A s \in GenStates : consumed[s].pkce <= 1
  /\ \A k \in Callers : Returned(k, "retrievePkceVerifier") =>
       /\ call[k].liveBefore =>
            /\ call[k].result = call[k].codeVerifier
            /\ call[k].dels = 1
            /\ ~call[k].liveAfter
       /\ ~call[k].liveBefore => call[k].result = Null /\ call[k].dels = 0

\* C5: a callback whose query has an error parameter ends with the
\* provider-error view, whether or not code and state are there, without a
\* store operation or a token exchange.
C5_ErrorParameterIsIdpError ==
  \A c \in Callbacks : Responded(c) /\ cb[c].error # Undefined =>
    /\ cb[c].response = ErrorView(AZURE_AD_UNAVAILABLE)
    /\ cb[c].storeOps = 0
    /\ cb[c].exchangeCalls = 0

\* C6: a callback without an error parameter whose code or state is missing
\* or empty ends with the malformed-callback view; the transaction store,
\* the token endpoint and the session store are not touched.
C6_MissingParamsMalformed ==
  \A c \in Callbacks :
    Responded(c) /\ cb[c].error = Undefined
      /\ (cb[c].code \in {Undefined, ""} \/ cb[c].state \in {Undefined, ""}) =>
        /\ cb[c].response = ErrorView(INVALID_AUTHENTICATION_RESPONSE)
        /\ cb[c].storeOps = 0
        /\ cb[c].pkceCalls = 0
        /\ cb[c].exchangeCalls = 0
        /\ cb[c].createCalls = 0

\* a callback with a code and an empty state has been answered
C6_Witness ==
  \E c \in Callbacks :
    Responded(c) /\ cb[c].error = Undefined /\ cb[c].code = AuthCode /\ cb[c].state = ""

\* C7: a callback with a code whose state is not in the store (never
\* stored, consumed or expired: validateStateParameter returns false) ends
\* with the request-expired view, and retrievePkceVerifier,
\* exchangeCodeForTokens and createSession are not invoked; a never-stored
\* state is never validated.
C7_UnknownStateExpired ==
  \A c \in Callbacks :
    /\ Responded(c) /\ cb[c].isValidState = "false" =>
         /\ Expired(c)
         /\ cb[c].pkceCalls = 0
         /\ cb[c].exchangeCalls = 0
         /\ cb[c].createCalls = 0
    /\ cb[c].state = ForgedState =>
         /\ cb[c].isValidState # "true"
         /\ cb[c].pkceCalls = 0
         /\ cb[c].exchangeCalls = 0
         /\ cb[c].createCalls = 0

\* a callback carrying a state that an earlier callback consumed has been
\* refused
C7_Witness ==
  \E c \in Callbacks :
    /\ Responded(c) /\ cb[c].code = AuthCode /\ cb[c].isValidState = "false"
    /\ cb[c].state \in GenStates
    /\ consumed[cb[c].state].valid >= 1

\* C8: a callback whose state validates but whose retrievePkceVerifier
\* returns null ends with the request-expired view, not the
\* authentication-failed one; exchangeCodeForTokens and createSession are
\* not invoked.
C8_MissingVerifierExpired ==
  \A c \in Callbacks :
    Responded(c) /\ cb[c].isValidState = "true" /\ cb[c].codeVerifier = Null =>
      /\ Expired(c)
      /\ ~AuthFailed(c)
      /\ cb[c].exchangeCalls = 0
      /\ cb[c].createCalls = 0

C8_Witness ==
  \E c \in Callbacks :
    Responded(c) /\ cb[c].isValidState = "true" /\ cb[c].codeVerifier = Null

\* C9: when exchangeCodeForTokens fails (non-2xx answer, transport error or
\* missing configuration) the callback ends with the authentication-failed
\* view; createSession is not invoked, no session key is written and no
\* cookie is set.
C9_ExchangeFailureAuthFailed ==
  \A c \in Callbacks :
    Responded(c) /\ cb[c].exchangeResult \in {"http_400", "network_error", "config_error"} =>
      /\ AuthFailed(c)
      /\ cb[c].createCalls = 0
      /\ cb[c].sessionData = NoSessionData
      /\ cb[c].written = ""
      /\ cb[c].cookie = ""

\* the token endpoint answered HTTP 400
C9_Witness ==
  \E c \in Callbacks : Responded(c) /\ cb[c].exchangeResult = "http_400"

\* C10: a callback response carries a session cookie only when the same
\* request wrote the session record of that session id; when the write
\* fails the callback ends with the authentication-failed view and no
\* cookie.
C10_CookieOnlyAfterWrite ==
  \A c \in Callbacks :
    /\ cb[c].cookie # "" =>
         /\ ~cb[c].writeFailed
         /\ cb[c].cookie = cb[c].written
         /\ cb[c].cookie = cb[c].sessionData.session_id
         /\ RedisHas(sessionKeys, cb[c].cookie, now)
         /\ sessionKeys[cb[c].cookie].value = cb[c].sessionData
    /\ Responded(c) /\ cb[c].writeFailed => AuthFailed(c) /\ cb[c].cookie = ""

\* after a callback that set a cookie, another one's session write failed
C10_Witness ==
  \E c \in Callbacks :
    Responded(c) /\ cb[c].writeFailed /\ browser.cookies # {}

C12_StoredBeforeRedirect ==
  [][\A l \in Logins :
       /\ lg[l].pc = "storeState" /\ lg'[l].pc = "storePkce" =>
            /\ authState'[lg[l].state] = now + 300
            /\ lg[l].pkceStore = "none" /\ lg[l].buildCalls = 0
       /\ lg[l].pc # "done" /\ lg'[l].response = Redirect("authorize") =>
            /\ lg[l].pc = "storePkce" /\ lg[l].stateStore = "ok"
            /\ lg[l].buildCalls = 0
            /\ lg'[l].authorizationUrl.state = lg[l].state
            /\ lg[l].state \in GenStates
            /\ consumed[lg[l].state].stores >= 1
            /\ authPkce'[lg[l].state] = [value |-> lg[l].codeVerifier, exp |-> now + 300]
            /\ lg'[l].authorizationUrl.code_challenge = codeChallengeOf(lg[l].codeVerifier)]_vars

C12_Witness ==
  \E l \in Logins : lg[l].pc = "done" /\ lg[l].response = Redirect("authorize")

\* C13: in GET /login, when storeStateParameter fails neither
\* storePkceVerifier nor buildAuthorizationUrl is invoked, and when
\* storePkceVerifier fails buildAuthorizationUrl is not invoked; the request
\* ends with the service-unavailable view, not with a redirect.
C13_StoreFailureStopsLogin ==
  \A l \in Logins :
    /\ lg[l].stateStore = "threw" =>
         /\ lg[l].pkceStore = "none" /\ lg[l].buildCalls = 0
         /\ lg[l].pc = "done" /\ lg[l].response = ErrorView(AZURE_AD_UNAVAILABLE)
    /\ lg[l].pkceStore = "threw" =>
         /\ lg[l].buildCalls = 0
         /\ lg[l].pc = "done" /\ lg[l].response = ErrorView(AZURE_AD_UNAVAILABLE)

\* storePkceVerifier failed after the state marker was written
C13_Witness ==
  \E l \in Logins : lg[l].pkceStore = "threw" /\ lg[l].stateStore = "ok"

\* C14: nothing is retried: a callback invokes exchangeCodeForTokens at
\* most once, and once some callback has passed the validation of state s,
\* a callback that validates s afterwards is refused as expired (or fails
\* when the store does not answer) and goes no further, whatever became of
\* the callback that consumed s.
C14_FailuresAreTerminal ==
  [][\A c \in Callbacks :
       /\ cb'[c].exchangeCalls <= 1
       /\ cb[c].pc = "validate" /\ cb'[c].pc # "validate"
            /\ cb[c].state \in GenStates /\ consumed[cb[c].state].valid >= 1 =>
              /\ cb'[c].pc = "done"
              /\ cb'[c].isValidState \in {"false", "none"}
              /\ cb'[c].isValidState = "false" => Expired(c)'
              /\ cb'[c].pkceCalls = 0 /\ cb'[c].exchangeCalls = 0
              /\ cb'[c].createCalls = 0]_vars

\* after a callback for s passed validation and then failed at the token
\* endpoint, a later callback with s has been refused
C14_Witness ==
  \E c \in Callbacks :
    /\ Responded(c) /\ cb[c].state \in GenStates /\ Expired(c)
    /\ cb[c].isValidState = "false"
    /\ consumed[cb[c].state].valid >= 1
    /\ consumed[cb[c].state].exchanges >= 1
    /\ consumed[cb[c].state].sessions = 0

\* C15: both transaction entries live exactly 300 seconds from their
\* write, so a callback that validates state s more than 300 seconds after
\* the login that stored s is refused as expired (or fails when the store
\* does not answer) and never reaches the token exchange.
C15_TransactionWindow ==
  [][/\ \A s \in GenStates :
          /\ authState'[s] # 0 => authState'[s] = consumed'[s].storedAt + 300
          /\ authPkce'[s].exp # 0 => authPkce'[s].exp = consumed'[s].pkceStoredAt + 300
     /\ \A c \in Callbacks :
          cb[c].pc = "validate" /\ cb'[c].pc # "validate"
            /\ cb[c].state \in GenStates /\ consumed[cb[c].state].stores >= 1
            /\ now > consumed[cb[c].state].storedAt + 300 =>
              /\ cb'[c].pc = "done"
              /\ cb'[c].isValidState \in {"false", "none"}
              /\ cb'[c].isValidState = "false" => Expired(c)'
              /\ cb'[c].pkceCalls = 0 /\ cb'[c].exchangeCalls = 0]_vars

\* a callback with a state nobody consumed has been refused more than 300
\* seconds after the state was stored
C15_Witness ==
  \E c \in Callbacks :
    /\ Responded(c) /\ cb[c].state \in GenStates /\ Expired(c)
    /\ consumed[cb[c].state].valid = 0
    /\ now > consumed[cb[c].state].storedAt + 300

\* C16: a state value reaches the store (as part of auth:state:{state} or
\* auth:pkce:{state}) only after validateState accepted it, for generated
\* states and for states taken from the callback query alike.
C16_KeyOnlyFromCheckedState ==
  /\ \A l \in Logins : lg[l].stateStore # "none" => validateState(lg[l].state) = "ok"
  /\ \A c \in Callbacks :
       cb[c].storeOps > 0 => validateState(cb[c].state) = "ok"

(***************************************************************************)
(* Properties of the SessionStore                                          *)
(***************************************************************************)
LastCall == sessionStore.call
\* this step is a call of fn (the clock stands still during a call)
CallStep(fn) == sessionStore'.call.fn = fn /\ now' = now /\ sessionStore' # sessionStore
MissingOrEmpty(sessionData) ==
  \E i \in 1..Len(requiredFields) :
    sessionData[requiredFields[i]].kind = "undefined" \/ sessionData[requiredFields[i]].len = 0
\* the step leaves session:{id} as it was
KeyUntouched(id) ==
  /\ sessionKeys'[id].exp = sessionKeys[id].exp
  /\ sessionKeys[id].exp # 0 => sessionKeys'[id].value = sessionKeys[id].value

\* C17: createSession with a payload in which a required field is missing or
\* empty throws and leaves session:{id} untouched, and when the key was not
\* there before, the next call, sessionExists(id), answers false.
C17_InvalidPayloadWritesNothing ==
  [][/\ CallStep("createSession") /\ MissingOrEmpty(sessionStore'.call.sessionData) =>
          /\ sessionStore'.call.result = "threw"
          /\ sessionStore'.call.error = MISSING_FIELDS
          /\ KeyUntouched(sessionStore'.call.sessionId)
     /\ /\ LastCall.fn = "createSession" /\ MissingOrEmpty(LastCall.sessionData)
        /\ ~LastCall.existedBefore
        /\ CallStep("sessionExists") /\ sessionStore'.call.sessionId = LastCall.sessionId
        /\ sessionStore'.call.result # "threw"
        => sessionStore'.call.result = "false"]_vars

\* createSession has thrown for a payload with a missing or empty required
\* field, and the sessionExists that followed has answered false
C17_Witness ==
  /\ LastCall.fn = "sessionExists" /\ LastCall.result = "false"
  /\ LastCall.before.fn = "createSession" /\ LastCall.before.error = MISSING_FIELDS

\* C18: createSession throws for every payload whose JSON text is longer than
\* 50000 and leaves the key untouched; a payload with the required fields
\* whose text is exactly 50000 long is written (unless Redis fails).
C18_SizeLimit ==
  [][CallStep("createSession") =>
       LET data == sessionStore'.call.sessionData
           id == sessionStore'.call.sessionId
           size == StringLength(JSONstringify(data))
       IN  /\ size > 50000 =>
                sessionStore'.call.result = "threw" /\ KeyUntouched(id)
           /\ size = 50000 /\ ~MissingOrEmpty(data)
                /\ sessionStore'.call.error # REDIS_ERROR =>
                /\ sessionStore'.call.result = "true"
                /\ RedisHas(sessionKeys', id, now)
                /\ sessionKeys'[id].value = JSONstringify(data)]_vars

\* a payload of exactly 50000 is stored, and a createSession with one of
\* 50001 has been refused
C18_Witness ==
  /\ LastCall.fn = "createSession" /\ LastCall.error = SIZE_EXCEEDED
  /\ StringLength(JSONstringify(LastCall.sessionData)) = 50001
  /\ RedisHas(sessionKeys, LastCall.sessionId, now)
  /\ StringLength(sessionKeys[LastCall.sessionId].value) = 50000

DeleteCalls == {"SessionStore.deleteSession", "sessionManager.deleteSession"}
DeleteReturned(rec) == rec.fn \in DeleteCalls /\ rec.result # "threw"

\* C20 as stated: a deleteSession call that Redis answers does not raise,
\* reports the number of keys removed (1 when the session existed, 0 when
\* not), and leaves the key absent.
C20_DeleteReportsCount ==
  LastCall.fn \in DeleteCalls /\ LastCall.error # REDIS_ERROR =>
    /\ LastCall.result = "count"
    /\ LastCall.count = IF LastCall.existedBefore THEN 1 ELSE 0
    /\ ~RedisHas(sessionKeys, LastCall.sessionId, now)

\* C20 amended: a deleteSession call raises only when the Redis DEL fails;
\* otherwise the key is absent afterwards, session-manager's deleteSession
\* returns the number of keys removed and SessionStore.deleteSession returns
\* true whether or not the session existed; a second call right after a
\* first finds nothing, so session-manager reports 0 and SessionStore true.
C20_DeleteIdempotent ==
  [][/\ \A fn \in DeleteCalls : CallStep(fn) =>
          /\ sessionStore'.call.result = "threw" => sessionStore'.call.error = REDIS_ERROR
          /\ sessionStore'.call.result # "threw" =>
               /\ ~RedisHas(sessionKeys', sessionStore'.call.sessionId, now)
               /\ fn = "sessionManager.deleteSession" =>
                    /\ sessionStore'.call.result = "count"
                    /\ sessionStore'.call.count =
                         IF sessionStore'.call.existedBefore THEN 1 ELSE 0
               /\ fn = "SessionStore.deleteSession" => sessionStore'.call.result = "true"
     /\ \A fn \in DeleteCalls :
          /\ DeleteReturned(LastCall) /\ CallStep(fn)
          /\ sessionStore'.call.sessionId = LastCall.sessionId
          /\ sessionStore'.call.result # "threw"
          => /\ ~sessionStore'.call.existedBefore
             /\ fn = "sessionManager.deleteSession" => sessionStore'.call.count = 0
             /\ fn = "SessionStore.deleteSession" => sessionStore'.call.result = "true"]_vars

\* a second deleteSession of session-manager, right after one that removed
\* the key, has reported 0
C20_Witness ==
  /\ LastCall.fn = "sessionManager.deleteSession" /\ LastCall.result = "count"
  /\ LastCall.count = 0 /\ ~LastCall.existedBefore
  /\ LastCall.before.fn \in DeleteCalls /\ LastCall.before.error = ""

(***************************************************************************)
(* Properties of session validation                                        *)
(***************************************************************************)
PageResponded(p) == pg[p].pc = "done"
\* the record that GET found has an expires_at that lies in the past
ExpiredRecord(p) ==
  pg[p].found /\ Parses(pg[p].data) /\ ValidDate(pg[p].data.expires_at)
    /\ pg[p].data.expires_at < now

\* C21: a getSession that finds a record whose expires_at is in the past
\* returns null and deletes the record, so the key is absent afterwards
\* (unless the DEL itself fails).
C21_ExpiredRecordDeleted ==
  \A p \in Pages :
    PageResponded(p) /\ ExpiredRecord(p) /\ ~pg[p].deleteFailed =>
      /\ pg[p].session = Null
      /\ ~RedisHas(sessionKeys, pg[p].cookie, now)

\* C22: updateSession on an id whose key is not there throws "Session not
\* found" (or the Redis error, when the EXISTS itself failed) and leaves
\* session:{id} as it was: absent.
C22_UpdateMissingKeyNotFound ==
  [][CallStep("updateSession") /\ ~sessionStore'.call.existedBefore =>
       /\ sessionStore'.call.result = "threw"
       /\ sessionStore'.call.error \in {NOT_FOUND, REDIS_ERROR}
       /\ KeyUntouched(sessionStore'.call.sessionId)
       /\ ~RedisHas(sessionKeys', sessionStore'.call.sessionId, now')]_vars

\* updateSession with a complete payload has thrown "Session not found" for
\* a key that was not there, and the key is still not there
C22_Witness ==
  /\ LastCall.fn = "updateSession" /\ LastCall.error = NOT_FOUND
  /\ LastCall.sessionData = Complete
  /\ ~LastCall.existedBefore
  /\ ~RedisHas(sessionKeys, LastCall.sessionId, now)

\* C23: session:{id} goes from absent to present only in a createSession:
\* an updateSession that runs next to a deleteSession never brings the
\* deleted key back.
C23_UpdateNeverResurrects ==
  [][\A id \in StoreSessionIds :
       ~RedisHas(sessionKeys, id, now) /\ RedisHas(sessionKeys', id, now') =>
         sessionStore'.call.fn = "createSession"]_vars

\* C24: on a key that exists and with Redis working, updateSession accepts a
\* payload exactly when createSession would (required fields present and
\* text of at most maxSize), then stores it with the full TTL; a rejected
\* payload leaves the key as it was.
C24_UpdateSameRuleAsCreate ==
  [][CallStep("updateSession") /\ sessionStore'.call.existedBefore
       /\ sessionStore'.call.error # REDIS_ERROR =>
       LET c == sessionStore'.call
           acceptable == validateSessionData(c.sessionData) /\ validateSessionSize(c.sessionData)
       IN  /\ (c.result = "true") <=> acceptable
           /\ c.result = "true" =>
                 /\ sessionKeys'[c.sessionId].value = JSONstringify(c.sessionData)
                 /\ sessionKeys'[c.sessionId].exp = now + SessionCacheTtlMs \div 1000
           /\ c.result # "true" => KeyUntouched(c.sessionId)]_vars

(***************************************************************************)
(* Properties of the protected pages                                       *)
(***************************************************************************)
\* the record the lookup found is one a reader may hand out: it parses and
\* its expires_at is not in the past
Unexpired(p) ==
  /\ pg[p].found /\ pg[p].data # NotJson
  /\ ~ValidDate(pg[p].data.expires_at) \/ pg[p].data.expires_at >= now

C26_NoCookieNoStoreRead ==
  \A p \in Pages :
    PageResponded(p) /\ ~Truthy(pg[p].cookie) =>
      /\ pg[p].response = Anonymous(pg[p].route)
      /\ pg[p].lookups = 0 /\ pg[p].storeOps = 0

\* '/' has answered a request without a cookie while the store holds a live
\* record
C26_Witness ==
  \E p \in Pages :
    /\ PageResponded(p) /\ pg[p].route = HOME_REDIRECT_PATH
    /\ pg[p].cookie = Undefined
    /\ pg[p].response = Redirect(LOGIN_PATH)
    /\ \E id \in SessionIds : RedisHas(sessionKeys, id, now)

\* C28: when the lookup throws (Redis fails, or the stored text does not
\* parse) the handler still answers, and with the redirect towards login.
C28_LookupFailureRedirects ==
  \A p \in Pages :
    PageResponded(p) /\ pg[p].threw =>
      /\ pg[p].response = Anonymous(pg[p].route)
      /\ pg[p].session = Null

\* '/upload-document' has met a stored text that does not parse and has
\* redirected to '/'
C28_Witness ==
  \E p \in Pages :
    /\ PageResponded(p) /\ pg[p].route = UPLOAD_DOCUMENT_PATH
    /\ pg[p].threw /\ pg[p].found /\ pg[p].data = NotJson
    /\ pg[p].response = Redirect(HOME_REDIRECT_PATH)

\* C27: no response of '/', '/upload-document' or GET /login clears or
\* rewrites the session cookie, whatever the lookup found; a cleared cookie
\* comes only from session-manager deleteSession called with the toolkit.
C27_ValidationLeavesCookie ==
  /\ \A p \in Pages : PageResponded(p) => pg[p].cookieOut = "untouched"
  /\ \A l \in Logins : lg[l].pc = "done" => lg[l].cookieOut = "untouched"
  /\ LastCall.cookieCleared => LastCall.fn = "sessionManager.deleteSession"

\* '/' has redirected a request whose cookie names an expired record
C27_Witness ==
  \E p \in Pages :
    /\ PageResponded(p) /\ pg[p].route = HOME_REDIRECT_PATH
    /\ Truthy(pg[p].cookie) /\ ExpiredRecord(p)
    /\ pg[p].session = Null /\ pg[p].cookieOut = "untouched"

(***************************************************************************)
(* Properties of the session record                                        *)
(***************************************************************************)
\* C29: in every record createSession computes, expires_at is created_at
\* plus the session TTL to the millisecond, and the token's exp is the same
\* instant as expires_at.
C29_ExpiryExact ==
  made.pc = "made" =>
    /\ made.expires_at = made.created_at + made.cacheTtl
    /\ made.exp * 1000 = made.expires_at

\* C30: the Max-Age of the session cookie equals the EX seconds of the SET
\* that writes the session record.
C30_CookieMaxAgeIsRedisTtl ==
  made.pc = "made" /\ made.fn = "createSession" => made.maxAge = made.ex
(***************************************************************************)
(* Properties of the session cookie and of the callback's failures         *)
(***************************************************************************)
\* C31: whenever a callback has set the session cookie, the cookie is named
\* 'session', is HttpOnly, has path '/' and has SameSite=Lax.
C31_CookieAttributes ==
  \A c \in Callbacks :
    Responded(c) /\ cb[c].cookie # "" =>
      CookieOptions(variant) =
        [name |-> "session", isHttpOnly |-> TRUE, path |-> "/", isSameSite |-> "Lax"]
\* the failure sink a finished callback belongs to, from what the request
\* carried and what happened to it
Sink(c) ==
  IF HasProviderError(cb[c].error) THEN "IDP_ERROR"
  ELSE IF MissingRequiredParams(cb[c].code, cb[c].state) THEN "MALFORMED_CALLBACK"
  ELSE IF cb[c].threw # "" THEN "AUTH_FAILED"
  ELSE "EXPIRED_REQUEST"
SinkMessage ==
  [IDP_ERROR |-> AZURE_AD_UNAVAILABLE, MALFORMED_CALLBACK |-> INVALID_AUTHENTICATION_RESPONSE,
   EXPIRED_REQUEST |-> AUTHENTICATION_REQUEST_EXPIRED, AUTH_FAILED |-> AUTHENTICATION_FAILED]

\* C32: the four sinks have four different messages, and the message a
\* failed callback renders is the constant of its sink, whatever the
\* provider's error parameter said and whichever operation threw what.
C32_FixedDistinctMessages ==
  /\ Cardinality({SinkMessage[s] : s \in DOMAIN SinkMessage}) = 4
  /\ \A c \in Callbacks :
       Responded(c) /\ cb[c].response.kind = "view" =>
         /\ cb[c].response = ErrorView(SinkMessage[Sink(c)])
         /\ Sink(c) = "EXPIRED_REQUEST" =>
               \/ cb[c].isValidState = "false"
               \/ cb[c].isValidState = "true" /\ ~Truthy(cb[c].codeVerifier)

\* the token endpoint could not be reached and the callback rendered the
\* authentication-failed message
C32_Witness ==
  \E c \in Callbacks :
    /\ Responded(c) /\ cb[c].exchangeResult = "network_error"
    /\ Sink(c) = "AUTH_FAILED" /\ AuthFailed(c)

\* C33: when the SET of createSession fails in a callback, the DEL of the
\* same key is attempted, its failure changes nothing, no cookie is set, and
\* what createSession throws is the error of the failed write.
C33_WriteFailureCleanup ==
  \A c \in Callbacks :
    Responded(c) /\ cb[c].writeFailed =>
      /\ cb[c].cleanup \in {"ok", "threw"}
      /\ cb[c].cookie = ""
      /\ cb[c].sessionData.session_id \notin browser.cookies
      /\ AuthFailed(c)
      /\ cb[c].createError = REDIS_ERROR

\* C38: a callback in which validateStateParameter, retrievePkceVerifier or
\* the session write threw ends with the login view and the
\* authentication-failed message, never with the request-expired one.
C38_StoreFailureIsAuthFailed ==
  \A c \in Callbacks :
    Responded(c)
      /\ cb[c].threw \in {"validateStateParameter", "retrievePkceVerifier", "createSession"} =>
        /\ cb[c].response.kind = "view"
        /\ AuthFailed(c) /\ ~Expired(c)
        /\ cb[c].cookie = ""

\* the GET of the verifier threw after the state had been validated
C38_Witness ==
  \E c \in Callbacks :
    /\ Responded(c) /\ cb[c].threw = "retrievePkceVerifier"
    /\ cb[c].isValidState = "true" /\ AuthFailed(c)
(***************************************************************************)
(* Properties of session-manager deleteSession and of the readers          *)
(***************************************************************************)
\* C35: deleteSession clears the cookie exactly when it is given the
\* toolkit, whether the DEL succeeded or threw; a DEL that threw is still
\* thrown to the caller.
C35_DeleteClearsCookie ==
  [][CallStep("sessionManager.deleteSession") =>
       LET c == sessionStore'.call
       IN  /\ c.cookieCleared <=> c.toolkit
           /\ c.result = "threw" =>
                 c.error = REDIS_ERROR /\ KeyUntouched(c.sessionId)
           /\ c.result # "threw" =>
                 ~RedisHas(sessionKeys', c.sessionId, now')]_vars

\* the DEL threw and the cookie was cleared all the same
C35_Witness ==
  /\ LastCall.fn = "sessionManager.deleteSession"
  /\ LastCall.toolkit /\ LastCall.cookieCleared
  /\ LastCall.result = "threw" /\ LastCall.existedBefore
\* the key of the call holds a record that parses and whose expires_at is a
\* date later than the clock
LiveRecord(id) ==
  /\ RedisHas(sessionKeys, id, now)
  /\ sessionKeys[id].value # NotJson
  /\ ValidDate(sessionKeys[id].value.expires_at)
  /\ now < sessionKeys[id].value.expires_at

C37_ExpiryBoundaryUniform ==
  /\ \A p \in Pages :
       PageResponded(p) /\ pg[p].found /\ Parses(pg[p].data)
         /\ ValidDate(pg[p].data.expires_at) =>
           (pg[p].session # Null <=> now < pg[p].data.expires_at)
\* C36: SessionStore.getSession returns null for a key that is not there
\* and throws 'Invalid session data format' for a stored text that does not
\* parse; a text that parses is returned as the parsed object; the store is
\* as it was after each of them.
C36_CorruptionReported ==
  [][CallStep("getSession") =>
       LET c == sessionStore'.call
           value == sessionKeys[c.sessionId].value
       IN  /\ UNCHANGED redis
           /\ c.error # REDIS_ERROR =>
                 /\ ~c.existedBefore => c.result = "null"
                 /\ c.existedBefore /\ value = NotJson =>
                       c.result = "threw" /\ c.error = INVALID_FORMAT
                 /\ c.existedBefore /\ value # NotJson =>
                       c.result = "data" /\ c.returned = JSONparse(value)]_vars

\* getSession has thrown the corruption error, and the corrupt text is
\* still in the store
C36_Witness ==
  /\ LastCall.fn = "getSession" /\ LastCall.error = INVALID_FORMAT
  /\ RedisHas(sessionKeys, LastCall.sessionId, now)
  /\ sessionKeys[LastCall.sessionId].value = NotJson

\* C39: a callback whose validateStateParameter returns false answers at
\* once; it has made no call of retrievePkceVerifier, and the step leaves
\* every auth:pkce key as it was.
C39_InvalidStateLeavesPkce ==
  [][\A c \in Callbacks :
       cb[c].pc \in {"validate", "validateDel"} /\ cb'[c].isValidState = "false" =>
         /\ cb'[c].pc = "done"
         /\ cb'[c].pkceCalls = 0
         /\ cb'[c].codeVerifier = "none"
         /\ authPkce' = authPkce]_vars

\* a callback was refused for its state while the verifier stored for that
\* state is still there
C39_Witness ==
  \E c \in Callbacks :
    /\ Responded(c) /\ cb[c].isValidState = "false" /\ cb[c].pkceCalls = 0
    /\ cb[c].state \in GenStates
    /\ RedisHas(authPkce, cb[c].state, now)

(***************************************************************************)
(* root/controller.js, login/controller.js, upload-document/controller.js: *)
(* the response of one GET for a cookie, given the store and the clock as  *)
(* they are and a store that answers                                       *)
(***************************************************************************)
MaxHops == 4
InternalRoutes == {HOME_REDIRECT_PATH, LOGIN_PATH, UPLOAD_DOCUMENT_PATH}

HandlerResponse(route, cookie) ==
  LET found == Truthy(cookie) /\ RedisHas(sessionKeys, cookie, now)
      data == IF found THEN sessionKeys[cookie].value ELSE NoSessionData
      manager == IF SessionManagerAccepts(found, data, now) THEN "session" ELSE Null
      repository == IF RepositoryAccepts(found, data, now) THEN "session" ELSE Null
  IN  IF route = HOME_REDIRECT_PATH THEN PageOutcome(route, repository)
      ELSE IF route = UPLOAD_DOCUMENT_PATH THEN PageOutcome(route, manager)
      ELSE IF AlreadyAuthenticated(IF variant = "inline" THEN manager ELSE repository)
             THEN Redirect(HOME_REDIRECT_PATH)
             ELSE Redirect("authorize")

\* following the redirects from a route ends within n requests
RECURSIVE ChainEnds(_, _, _)
ChainEnds(route, cookie, n) ==
  IF n = 0 THEN FALSE
  ELSE LET r == HandlerResponse(route, cookie)
       IN  IF r.kind = "redirect" /\ r.location \in InternalRoutes
             THEN ChainEnds(r.location, cookie, n - 1)
             ELSE TRUE

ChainCookies == {Undefined, ForgedSession} \cup DOMAIN sessionKeys

\* C40: for the store and clock as they are and any cookie, the redirects
\* followed from '/', '/login' or '/upload-document' end at the authorization
\* URL, the upload-document view or an error view within MaxHops requests.
C40_RedirectsTerminate ==
  \A cookie \in ChainCookies : \A start \in InternalRoutes :
    ChainEnds(start, cookie, MaxHops)

====
